---- MODULE Spec2Model ----
(***************************************************************************)
(* Crawl orchestration of crawl4dev (src/src/crawl4dev/crawler.py):        *)
(* UniversalDocsCrawler.deep_crawl, crawl_page, is_valid_url,              *)
(* setup_for_website and auto_detect_patterns, run against a page fetcher  *)
(* stub (AsyncWebCrawler.arun) over a small site.                          *)
(***************************************************************************)
EXTENDS Integers, Sequences, FiniteSets, TLC

(***************************************************************************)
(* Bounds of the model and constants of the program.                       *)
(***************************************************************************)
MaxPages == 3            \* deep_crawl is called with max_pages in 0..MaxPages
MaxRuns == 2             \* deep_crawl calls made on one crawler object
LinkCap == 10            \* valid_new_links[:10]
MinContentLength == 100  \* self.config.get("min_content_length", 100)

(***************************************************************************)
(* The URLs of the site.  A URL is scheme://host/path: host, the path      *)
(* segments, whether the string ends with "/", and the file extension of   *)
(* its last segment ("" when it has none).  The state holds indices into   *)
(* UrlTable.                                                               *)
(*   1  https://a.io/docs/          2  https://a.io/product                *)
(*   3  https://b.io/docs/x         4  https://a.io/docs/f.pdf             *)
(*   5  https://a.io/product/p      6..  https://a.io/docs/p<i>            *)
(* There are LinkCap + 1 pages under /docs/, so that one page can link to  *)
(* more valid URLs than a single page may enqueue.                         *)
(***************************************************************************)
NumUrls == 5 + LinkCap + 1
Urls == 1..NumUrls
DocPages == 6..NumUrls
NoUrl == 0

UrlTable ==
  [u \in Urls |->
     CASE u = 1 -> [host |-> "a.io", path |-> <<"docs">>, page |-> 0, slash |-> TRUE, ext |-> ""]
       [] u = 2 -> [host |-> "a.io", path |-> <<"product">>, page |-> 0, slash |-> FALSE, ext |-> ""]
       [] u = 3 -> [host |-> "b.io", path |-> <<"docs", "x">>, page |-> 0, slash |-> FALSE, ext |-> ""]
       [] u = 4 -> [host |-> "a.io", path |-> <<"docs", "f">>, page |-> 0, slash |-> FALSE, ext |-> ".pdf"]
       [] u = 5 -> [host |-> "a.io", path |-> <<"product", "p">>, page |-> 0, slash |-> FALSE, ext |-> ""]
       [] OTHER -> [host |-> "a.io", path |-> <<"docs", "p">>, page |-> u, slash |-> FALSE, ext |-> ""]]

\* the empty string, as a URL: self.base_url = ""
EmptyUrl == [host |-> "", path |-> <<>>, page |-> 0, slash |-> FALSE, ext |-> ""]

SeqRange(s) == {s[i] : i \in 1..Len(s)}
Min(a, b) == IF a < b THEN a ELSE b

(***************************************************************************)
(* The page fetcher stub.  A fetch of a URL either raises or returns a     *)
(* result: the success flag, the length of result.markdown and the length  *)
(* of the markdown after clean_markdown_for_llm.                           *)
(***************************************************************************)
Raises == [raises |-> TRUE, success |-> FALSE, markdown |-> 0, cleaned |-> 0]
Unsuccessful == [raises |-> FALSE, success |-> FALSE, markdown |-> 0, cleaned |-> 0]
NoText == [raises |-> FALSE, success |-> TRUE, markdown |-> 0, cleaned |-> 0]
TooShort ==
  [raises |-> FALSE, success |-> TRUE, markdown |-> MinContentLength + 20,
   cleaned |-> MinContentLength - 1]
JustMin ==
  [raises |-> FALSE, success |-> TRUE, markdown |-> MinContentLength + 20,
   cleaned |-> MinContentLength]
Good ==
  [raises |-> FALSE, success |-> TRUE, markdown |-> MinContentLength + 20,
   cleaned |-> MinContentLength + 1]
AllOutcomes == {Raises, Unsuccessful, NoText, TooShort, JustMin, Good}
\* crawler.arun has not returned
Pending == [raises |-> FALSE, success |-> FALSE, markdown |-> -1, cleaned |-> -1]

(***************************************************************************)
(* The sites the stub serves.  rel[u] are the URLs that the relative link  *)
(* targets of page u resolve to (urljoin), absl[u] the URLs page u writes  *)
(* as absolute links, out[u] the results a fetch of u can have.            *)
(*   pair:  the seed and one page link to each other                       *)
(*   star:  the seed links to every page under /docs/                      *)
(*   mesh:  four pages linking to one another, with a cycle to the seed    *)
(***************************************************************************)
PairSite ==
  [rel  |-> [u \in Urls |-> CASE u = 1 -> {6, 4}
                              [] u = 6 -> {1}
                              [] u = 2 -> {5}
                              [] OTHER -> {}],
   absl |-> [u \in Urls |-> IF u = 1 THEN {3, 7} ELSE {}],
   out  |-> [u \in Urls |-> AllOutcomes]]

StarSite ==
  [rel  |-> [u \in Urls |-> IF u = 1 THEN DocPages \cup {4, 5} ELSE {}],
   absl |-> [u \in Urls |-> {}],
   out  |-> [u \in Urls |-> IF u = 1 THEN AllOutcomes ELSE {Good}]]

MeshSite ==
  [rel  |-> [u \in Urls |-> CASE u = 1 -> {6, 7}
                              [] u = 6 -> {7, 8}
                              [] u = 7 -> {6, 8}
                              [] u = 8 -> {1, 2}
                              [] OTHER -> {}],
   absl |-> [u \in Urls |-> {}],
   out  |-> [u \in Urls |-> AllOutcomes]]

Sites == <<PairSite, StarSite, MeshSite>>
StartUrls == {1, 2, 3}

VARIABLES
  site,            \* which of Sites the fetcher stub serves
  pc,              \* position of deep_crawl: idle, loop, fetching, sleeping, done
  run,             \* deep_crawl calls started on this crawler object
  base_url,        \* self.base_url
  domain,          \* self.domain
  url_patterns,    \* self.url_patterns: include and exclude
  crawled_urls,    \* self.crawled_urls
  results,         \* self.results
  failed_urls,     \* self.failed_urls
  max_pages,       \* deep_crawl's max_pages
  urls_to_crawl,   \* deep_crawl's urls_to_crawl
  current_url,     \* deep_crawl's current_url
  page_data,       \* deep_crawl's page_data
  found_links,     \* deep_crawl's found_links
  result,          \* crawl_page's result: what crawler.arun returned
  arun_calls,      \* history: URLs crawler.arun was called with in this run
  in_flight,       \* history: crawler.arun calls that have not returned
  processed,       \* history: URLs dequeued and not skipped in this run
  sleeps,          \* history: asyncio.sleep calls in this run
  sleeps_at_fetch, \* history: value of sleeps at the last crawler.arun call
  args,            \* the arguments of a method called on the crawler by itself
  ret              \* what that method returned

vars ==
  <<site, pc, run, base_url, domain, url_patterns, crawled_urls, results,
    failed_urls, max_pages, urls_to_crawl, current_url, page_data, found_links,
    result, arun_calls, in_flight, processed, sleeps, sleeps_at_fetch, args, ret>>

(***************************************************************************)
(* URL scope filter: is_valid_url, setup_for_website, auto_detect_patterns *)
(* A regular expression is modelled by what re.search decides on the URLs  *)
(* of UrlTable:                                                            *)
(*   contains w    .*w.*        the URL text contains w                    *)
(*   segment w     .*/w/.*      the URL text contains /w/                  *)
(*   prefix p      p/.*         the URL text contains the path p, then /   *)
(*   startseg w    .*/w.*       the URL text contains /w                   *)
(*   filetype      .*\.(pdf|zip|...)$                                      *)
(*   assetdir      .*/(_images|images|...)/.*                              *)
(*   marker        the anchor, pagination, template, placeholder and       *)
(*                 wildcard patterns; no URL of UrlTable carries a         *)
(*                 fragment, a query, a brace, an angle bracket or a star  *)
(* Path segments are whole words here, so "contains" compares segments.    *)
(***************************************************************************)
DocIndicators == {"docs", "documentation", "guide", "manual", "help", "wiki", "api"}

FileExtensions ==
  {".png", ".jpg", ".jpeg", ".gif", ".svg", ".webp", ".ico", ".bmp", ".pdf",
   ".doc", ".docx", ".xls", ".xlsx", ".ppt", ".pptx", ".zip", ".tar", ".gz",
   ".rar", ".7z", ".mp4", ".mp3", ".avi", ".mov", ".wav", ".json", ".xml",
   ".csv", ".txt", ".log", ".woff", ".woff2", ".ttf", ".eot", ".css", ".js",
   ".map"}

ExcludedFileTypes ==
  {".pdf", ".zip", ".tar", ".gz", ".exe", ".dmg", ".pkg", ".png", ".jpg",
   ".jpeg", ".gif", ".svg", ".webp", ".ico", ".bmp"}

AssetDirs ==
  {"_images", "images", "img", "assets", "static", "media", "files", "downloads"}

Marker(w) == [kind |-> "marker", word |-> w, path |-> <<>>]

DefaultExclude ==
  {[kind |-> "startseg", word |-> w, path |-> <<>>] :
     w \in {"login", "register", "signup", "signin", "cart", "checkout",
            "account", "profile", "admin", "dashboard", "settings", "search",
            "tag", "category"}}
  \cup {[kind |-> "filetype", word |-> "", path |-> <<>>],
        [kind |-> "assetdir", word |-> "", path |-> <<>>],
        Marker("#"), Marker("?page="), Marker("${}"), Marker("{{}}"),
        Marker("%7B%7D"), Marker("<>"), Marker("/*")}

\* a path segment that is followed by "/" in the URL text
FollowedBySlash(url, i) == i < Len(url.path) \/ url.slash

\* the path p occurs in the URL's path from position i on, and "/" follows it
PathAt(url, p, i) ==
  /\ i + Len(p) - 1 <= Len(url.path)
  /\ \A k \in 1..Len(p) : url.path[i + k - 1] = p[k]
  /\ FollowedBySlash(url, i + Len(p) - 1)

\* re.search(pattern, url, re.IGNORECASE)
Matches(pat, url) ==
  CASE pat.kind = "contains" -> \E i \in 1..Len(url.path) : url.path[i] = pat.word
    [] pat.kind = "segment" ->
         \E i \in 1..Len(url.path) : url.path[i] = pat.word /\ FollowedBySlash(url, i)
    [] pat.kind = "prefix" -> \E i \in 1..Len(url.path) : PathAt(url, pat.path, i)
    [] pat.kind = "startseg" -> \E i \in 1..Len(url.path) : url.path[i] = pat.word
    [] pat.kind = "filetype" -> url.ext \in ExcludedFileTypes /\ ~url.slash
    [] pat.kind = "assetdir" ->
         \E i \in 1..Len(url.path) : url.path[i] \in AssetDirs /\ FollowedBySlash(url, i)
    [] OTHER -> FALSE

\* base_url.rstrip("/")
RStripSlash(url) == [url EXCEPT !.slash = FALSE]

\* f"{parsed.scheme}://{parsed.netloc}"
DomainOf(url) == url.host

\* the include patterns auto_detect_patterns builds from self.base_url
AutoInclude(base) ==
  LET found == {w \in DocIndicators : \E i \in 1..Len(base.path) : base.path[i] = w}
  IN  IF found # {}
      THEN {[kind |-> "contains", word |-> w, path |-> <<>>] : w \in found}
           \cup {[kind |-> "segment", word |-> w, path |-> <<>>] : w \in found}
      ELSE IF Len(base.path) > 0
           THEN {[kind |-> "prefix", word |-> "", path |-> base.path]}
           ELSE {}

\* self.url_patterns after auto_detect_patterns: a list that is already
\* non-empty is kept
auto_detect_patterns(patterns, base) ==
  [include |-> IF patterns.include = {} THEN AutoInclude(base) ELSE patterns.include,
   exclude |-> IF patterns.exclude = {} THEN DefaultExclude ELSE patterns.exclude]

\* is_valid_url on a URL index, under a domain and patterns
ValidUnder(u, dom, patterns) ==
  /\ u # NoUrl
  /\ ~(UrlTable[u].ext \in FileExtensions /\ ~UrlTable[u].slash)
  /\ \/ dom = ""
     \/ /\ UrlTable[u].host = dom
        /\ \/ patterns.include = {}
           \/ \E pat \in patterns.include : Matches(pat, UrlTable[u])
        /\ ~(patterns.exclude # {} /\ \E pat \in patterns.exclude : Matches(pat, UrlTable[u]))

\* the include patterns are not consulted
is_valid_url_no_include(u) ==
  ValidUnder(u, domain, [include |-> {}, exclude |-> url_patterns.exclude])

is_valid_url(u) == ValidUnder(u, domain, url_patterns)

\* extract_links_from_content: targets written as absolute links are skipped,
\* the relative ones are resolved and kept when is_valid_url admits them
extract_links_from_content(u) == {l \in Sites[site].rel[u] : is_valid_url(l)}

(***************************************************************************)
(* crawl_page, after crawler.arun has returned r (or raised) for url u.    *)
(***************************************************************************)
None == [url |-> NoUrl, content_length |-> 0]

\* result.success and result.markdown
HasText(r) == r.success /\ r.markdown > 0

\* len(cleaned_markdown) > self.config.get("min_content_length", 100)
Sufficient(r) == r.cleaned > MinContentLength

\* the page is built: no exception, text, and enough of it
Built(r) == ~r.raises /\ HasText(r) /\ Sufficient(r)

\* the first value crawl_page returns
PageOf(u, r) == IF Built(r) THEN [url |-> u, content_length |-> r.cleaned] ELSE None

\* the second value crawl_page returns
LinksOf(u, r) == IF Built(r) THEN extract_links_from_content(u) ELSE {}

\* every return of crawl_page appends
RecordsFailureAlways(r) == TRUE

\* only the except branch appends
RecordsFailureOnRaise(r) == r.raises

\* crawl_page appends the URL to self.failed_urls: the else branch of
\* "result.success and result.markdown", and the except branch
RecordsFailure(r) == r.raises \/ ~HasText(r)

FailedAfter(u, r) == IF RecordsFailure(r) THEN Append(failed_urls, u) ELSE failed_urls

(***************************************************************************)
(* deep_crawl                                                              *)
(***************************************************************************)
\* the budget test off by one
LoopConditionInclusive == urls_to_crawl # {} /\ Len(results) <= max_pages

\* while urls_to_crawl and len(self.results) < max_pages
LoopCondition == urls_to_crawl # {} /\ Len(results) < max_pages

\* the URL is read but left in the set
AfterPopKept(u) == urls_to_crawl

\* urls_to_crawl after urls_to_crawl.pop() returned u
AfterPop(u) == urls_to_crawl \ {u}

\* the URL is not added to crawled_urls
MarkCrawledForgotten(u) == crawled_urls

\* self.crawled_urls.add(current_url)
MarkCrawled(u) == crawled_urls \cup {u}

\* if page_data: self.results.append(page_data)
ResultsAfter(page) == IF page # None THEN Append(results, page) ELSE results

\* the links already crawled are not taken out
ValidNewLinksWithCrawled(links) == {l \in links : is_valid_url(l)}

\* valid_new_links: found_links - self.crawled_urls, filtered by is_valid_url
ValidNewLinks(links) == {l \in links \ crawled_urls : is_valid_url(l)}

\* valid_new_links[:1]
FirstLinksOne(valid) == {T \in SUBSET valid : Cardinality(T) = Min(1, Cardinality(valid))}

\* no cap on the links of a page
FirstLinksUncapped(valid) == {valid}

\* valid_new_links[:10]: the list is built from a set, in any order
FirstLinks(valid) ==
  {T \in SUBSET valid : Cardinality(T) = Min(LinkCap, Cardinality(valid))}

\* the links of a page are never queued
EnqueueNothing(frontier, links, res) == frontier

\* for link in ...: if len(self.results) < max_pages: urls_to_crawl.add(link)
Enqueue(frontier, links, res) == IF Len(res) < max_pages THEN frontier \cup links ELSE frontier

\* the pass ends without the sleep
PolitenessSleepNoDelay == sleeps' = sleeps /\ pc' = "loop"

\* await asyncio.sleep(self.config.get("crawl_delay", 0.5))
PolitenessSleep == sleeps' = sleeps + 1 /\ pc' = "sleeping"

\* lines 563-576 of deep_crawl, after crawl_page returned (page, links);
\* frontier is urls_to_crawl after the pop
AfterCrawlPage(frontier, page, links) ==
  /\ page_data' = page
  /\ found_links' = links
  /\ results' = ResultsAfter(page)
  /\ \E T \in FirstLinks(ValidNewLinks(links)) :
       urls_to_crawl' = Enqueue(frontier, T, results')
  /\ PolitenessSleep

\* the fetch is started but not awaited
AtLoopHeadNoAwait == pc \in {"loop", "fetching"}

\* the loop head is reached only after the awaits of the pass before it
AtLoopHead == pc = "loop"

\* no method is called by itself during a crawl
NoArgs == <<>>
NoRet == <<>>

Init ==
  /\ site \in 1..Len(Sites)
  /\ pc = "idle"
  /\ run = 0
  /\ base_url = EmptyUrl
  /\ domain = ""
  /\ url_patterns = [include |-> {}, exclude |-> {}]
  /\ crawled_urls = {}
  /\ results = <<>>
  /\ failed_urls = <<>>
  /\ max_pages = 0
  /\ urls_to_crawl = {}
  /\ current_url = NoUrl
  /\ page_data = None
  /\ found_links = {}
  /\ result = Pending
  /\ arun_calls = <<>>
  /\ in_flight = 0
  /\ processed = 0
  /\ sleeps = 0
  /\ sleeps_at_fetch = 0
  /\ args = NoArgs
  /\ ret = NoRet

\* a step of the loop clears self.domain
ConfigDomainCleared == base_url' = base_url /\ domain' = "" /\ url_patterns' = url_patterns

\* the loop of deep_crawl, crawl_page, is_valid_url and
\* extract_links_from_content read self.base_url, self.domain and
\* self.url_patterns and assign none of them
ConfigKept == UNCHANGED <<base_url, domain, url_patterns>>

\* deep_crawl(start_url, max_pages) up to the loop: setup_for_website and
\* urls_to_crawl = {start_url}
DeepCrawl(start, budget) ==
  /\ pc \in {"idle", "done"}
  /\ run < MaxRuns
  /\ run' = run + 1
  /\ base_url' = RStripSlash(UrlTable[start])
  /\ domain' = DomainOf(UrlTable[start])
  /\ url_patterns' = auto_detect_patterns(url_patterns, base_url')
  /\ max_pages' = budget
  /\ urls_to_crawl' = {start}
  /\ current_url' = NoUrl
  /\ page_data' = None
  /\ found_links' = {}
  /\ result' = Pending
  /\ arun_calls' = <<>>
  /\ processed' = 0
  /\ sleeps' = 0
  /\ sleeps_at_fetch' = 0
  /\ pc' = "loop"
  /\ UNCHANGED <<site, crawled_urls, results, failed_urls, in_flight, args, ret>>

\* one pass of the loop from its head to the next await: the pop, the
\* already-crawled test, the add to crawled_urls, and crawl_page up to
\* crawler.arun (or to its early return for a URL is_valid_url rejects,
\* followed by the rest of the loop body up to asyncio.sleep)
Dequeue ==
  /\ AtLoopHead
  /\ LoopCondition
  /\ \E u \in urls_to_crawl :
       /\ current_url' = u
       /\ IF u \in crawled_urls
          THEN /\ urls_to_crawl' = AfterPop(u)
               /\ UNCHANGED <<pc, crawled_urls, results, page_data, found_links, result,
                              arun_calls, in_flight, processed, sleeps, sleeps_at_fetch>>
          ELSE /\ crawled_urls' = MarkCrawled(u)
               /\ processed' = processed + 1
               /\ result' = Pending
               /\ IF is_valid_url(u)
                  THEN /\ urls_to_crawl' = AfterPop(u)
                       /\ arun_calls' = Append(arun_calls, u)
                       /\ in_flight' = in_flight + 1
                       /\ sleeps_at_fetch' = sleeps
                       /\ pc' = "fetching"
                       /\ UNCHANGED <<results, page_data, found_links, sleeps>>
                  ELSE /\ AfterCrawlPage(AfterPop(u), None, {})
                       /\ UNCHANGED <<arun_calls, in_flight, sleeps_at_fetch>>
  /\ ConfigKept
  /\ UNCHANGED <<site, run, failed_urls, max_pages, args, ret>>

\* crawler.arun returns r or raises; the rest of crawl_page and of the loop
\* body up to asyncio.sleep
FetchReturns ==
  /\ pc = "fetching"
  /\ \E r \in Sites[site].out[current_url] :
       /\ result' = r
       /\ failed_urls' = FailedAfter(current_url, r)
       /\ AfterCrawlPage(urls_to_crawl, PageOf(current_url, r), LinksOf(current_url, r))
  /\ in_flight' = in_flight - 1
  /\ ConfigKept
  /\ UNCHANGED <<site, run, crawled_urls, max_pages, current_url, arun_calls, processed,
                 sleeps_at_fetch, args, ret>>

\* asyncio.sleep returns: back to the loop head
SleepReturns ==
  /\ pc = "sleeping"
  /\ pc' = "loop"
  /\ ConfigKept
  /\ UNCHANGED <<site, run, crawled_urls, results, failed_urls, max_pages,
                 urls_to_crawl, current_url, page_data, found_links, result, arun_calls,
                 in_flight, processed, sleeps, sleeps_at_fetch, args, ret>>

\* the loop condition is false: deep_crawl returns self.results
LoopExit ==
  /\ AtLoopHead
  /\ ~LoopCondition
  /\ pc' = "done"
  /\ ConfigKept
  /\ UNCHANGED <<site, run, crawled_urls, results, failed_urls, max_pages,
                 urls_to_crawl, current_url, page_data, found_links, result, arun_calls,
                 in_flight, processed, sleeps, sleeps_at_fetch, args, ret>>

Call == \E start \in StartUrls, budget \in 0..MaxPages : DeepCrawl(start, budget)

Next == Call \/ Dequeue \/ FetchReturns \/ SleepReturns \/ LoopExit

Spec == Init /\ [][Next]_vars

\* the coroutine keeps running: every fetch returns, every sleep ends
FairSpec ==
  /\ Spec
  /\ WF_vars(Dequeue) /\ WF_vars(FetchReturns) /\ WF_vars(SleepReturns) /\ WF_vars(LoopExit)

(***************************************************************************)
(* Text.  Where a method is checked on the text it is given, a string is a *)
(* sequence of characters, each a string of length one; the grave accent,  *)
(* which a TLA+ string cannot hold, is the string "backtick".              *)
(***************************************************************************)
UpperCase == <<"A", "B", "C", "D", "E", "F", "G", "H", "I", "J", "K", "L",
  "M", "N", "O", "P", "Q", "R", "S", "T", "U", "V", "W", "X", "Y", "Z">>
LowerCase == <<"a", "b", "c", "d", "e", "f", "g", "h", "i", "j", "k", "l",
  "m", "n", "o", "p", "q", "r", "s", "t", "u", "v", "w", "x", "y", "z">>
Digits == {"0", "1", "2", "3", "4", "5", "6", "7", "8", "9"}
Letters == SeqRange(UpperCase) \cup SeqRange(LowerCase)
\* the characters \s matches and str.strip removes
WhiteSpace == {" ", "\t", "\n", "\r"}

\* s.startswith(p), s.endswith(p)
StartsWith(s, p) == Len(p) <= Len(s) /\ SubSeq(s, 1, Len(p)) = p
EndsWith(s, p) == Len(p) <= Len(s) /\ SubSeq(s, Len(s) - Len(p) + 1, Len(s)) = p
\* p is in s at position i
OccursAt(s, p, i) == i >= 1 /\ i + Len(p) - 1 <= Len(s) /\ SubSeq(s, i, i + Len(p) - 1) = p
\* p in s
Contains(s, p) == \E i \in 1..(Len(s) + 1) : OccursAt(s, p, i)

\* s.lower()
LowerChar(c) ==
  IF c \in SeqRange(UpperCase)
  THEN LowerCase[CHOOSE i \in 1..Len(UpperCase) : UpperCase[i] = c]
  ELSE c
Lower(s) == [i \in 1..Len(s) |-> LowerChar(s[i])]

\* s.upper()
UpperChar(c) ==
  IF c \in SeqRange(LowerCase)
  THEN UpperCase[CHOOSE i \in 1..Len(LowerCase) : LowerCase[i] = c]
  ELSE c

\* the position of the first character of s that is in cs; Len(s) + 1 when
\* there is none
FirstIn(s, cs) ==
  IF \E i \in 1..Len(s) : s[i] \in cs
  THEN CHOOSE i \in 1..Len(s) : s[i] \in cs /\ \A j \in 1..(i - 1) : s[j] \notin cs
  ELSE Len(s) + 1

\* the position of the last character of s that is in cs; 0 when there is none
LastIn(s, cs) ==
  IF \E i \in 1..Len(s) : s[i] \in cs
  THEN CHOOSE i \in 1..Len(s) : s[i] \in cs /\ \A j \in (i + 1)..Len(s) : s[j] \notin cs
  ELSE 0

\* s.lstrip(), s.rstrip(), s.strip() of the characters cs
LStrip(s, cs) == SubSeq(s, FirstIn(s, {s[i] : i \in 1..Len(s)} \ cs), Len(s))
RStrip(s, cs) == SubSeq(s, 1, LastIn(s, {s[i] : i \in 1..Len(s)} \ cs))
Strip(s, cs) == LStrip(RStrip(s, cs), cs)

(***************************************************************************)
(* urllib.parse: urlparse and unquote, as is_valid_url uses them.          *)
(***************************************************************************)
\* chr(n) for the printable ASCII characters, 32..126
Printable == <<" ", "!", "\"", "#", "$", "%", "&", "'", "(", ")", "*", "+",
  ",", "-", ".", "/", "0", "1", "2", "3", "4", "5", "6", "7", "8", "9", ":",
  ";", "<", "=", ">", "?", "@", "A", "B", "C", "D", "E", "F", "G", "H", "I",
  "J", "K", "L", "M", "N", "O", "P", "Q", "R", "S", "T", "U", "V", "W", "X",
  "Y", "Z", "[", "\\", "]", "^", "_", "backtick", "a", "b", "c", "d", "e", "f", "g",
  "h", "i", "j", "k", "l", "m", "n", "o", "p", "q", "r", "s", "t", "u", "v",
  "w", "x", "y", "z", "{", "|", "}", "~">>

\* a byte that decodes to no ASCII character: unquote gives a character
\* outside ASCII (U+FFFD for a lone byte)
NonAscii == "U+FFFD"

Chr(n) ==
  CASE n \in 32..126 -> Printable[n - 31]
    [] n = 9 -> "\t"
    [] n = 10 -> "\n"
    [] n = 13 -> "\r"
    [] OTHER -> NonAscii

HexDigits == Digits \cup {"A", "B", "C", "D", "E", "F", "a", "b", "c", "d", "e", "f"}
HexOrder == <<"0", "1", "2", "3", "4", "5", "6", "7", "8", "9", "a", "b", "c", "d", "e", "f">>
HexVal(c) == (CHOOSE i \in 1..Len(HexOrder) : HexOrder[i] = LowerChar(c)) - 1

\* unquote(url): every %XX with two hexadecimal digits becomes the character
\* with that code; any other % is kept
RECURSIVE unquote(_)
unquote(s) ==
  IF s = <<>> THEN <<>>
  ELSE IF s[1] = "%" /\ Len(s) >= 3 /\ s[2] \in HexDigits /\ s[3] \in HexDigits
       THEN <<Chr(16 * HexVal(s[2]) + HexVal(s[3]))>> \o unquote(SubSeq(s, 4, Len(s)))
       ELSE <<s[1]>> \o unquote(Tail(s))

\* urlsplit first strips leading spaces and control characters and removes
\* tab, CR and LF
UrlCleaned(url) ==
  SelectSeq(LStrip(url, WhiteSpace), LAMBDA c : c \notin {"\t", "\r", "\n"})

SchemeChars == Letters \cup Digits \cup {"+", "-", "."}

\* the length of the scheme: the text before the first ":", when it starts
\* with a letter and holds scheme characters only
SchemeLen(url) ==
  LET u == UrlCleaned(url)
      i == FirstIn(u, {":"})
  IN  IF i > 1 /\ i <= Len(u) /\ u[1] \in Letters /\ \A k \in 1..(i - 1) : u[k] \in SchemeChars
      THEN i - 1
      ELSE 0

\* urlparse(url).scheme
Scheme(url) == Lower(SubSeq(UrlCleaned(url), 1, SchemeLen(url)))

\* the URL after "scheme:"
AfterScheme(url) ==
  LET u == UrlCleaned(url)
  IN  IF SchemeLen(url) > 0 THEN SubSeq(u, SchemeLen(url) + 2, Len(u)) ELSE u

\* urlparse(url).netloc: after "//", up to the first "/", "?" or "#"
Netloc(url) ==
  LET r == AfterScheme(url)
  IN  IF StartsWith(r, <<"/", "/">>)
      THEN SubSeq(r, 3, FirstIn(SubSeq(r, 3, Len(r)), {"/", "?", "#"}) + 1)
      ELSE <<>>

\* the URL after the netloc
AfterNetloc(url) ==
  LET r == AfterScheme(url)
  IN  IF StartsWith(r, <<"/", "/">>) THEN SubSeq(r, 3 + Len(Netloc(url)), Len(r)) ELSE r

\* urlparse(url).path: up to the first "?" or "#"
UrlPath(url) ==
  LET r == AfterNetloc(url) IN SubSeq(r, 1, FirstIn(r, {"?", "#"}) - 1)

\* f"{parsed.scheme}://{parsed.netloc}"
SchemeAndHost(url) == Scheme(url) \o <<":", "/", "/">> \o Netloc(url)

(***************************************************************************)
(* is_valid_url on the text of a URL.  An include or exclude pattern is    *)
(* modelled by a word w, standing for the regular expression .*w.* (as in  *)
(* ".*docs.*" and ".*/login.*"): re.search with re.IGNORECASE finds it     *)
(* when the URL contains w, letter case ignored.                           *)
(***************************************************************************)
\* file_extensions
file_extensions ==
  {<<".", "p", "n", "g">>,
   <<".", "j", "p", "g">>,
   <<".", "j", "p", "e", "g">>,
   <<".", "g", "i", "f">>,
   <<".", "s", "v", "g">>,
   <<".", "w", "e", "b", "p">>,
   <<".", "i", "c", "o">>,
   <<".", "b", "m", "p">>,
   <<".", "p", "d", "f">>,
   <<".", "d", "o", "c">>,
   <<".", "d", "o", "c", "x">>,
   <<".", "x", "l", "s">>,
   <<".", "x", "l", "s", "x">>,
   <<".", "p", "p", "t">>,
   <<".", "p", "p", "t", "x">>,
   <<".", "z", "i", "p">>,
   <<".", "t", "a", "r">>,
   <<".", "g", "z">>,
   <<".", "r", "a", "r">>,
   <<".", "7", "z">>,
   <<".", "m", "p", "4">>,
   <<".", "m", "p", "3">>,
   <<".", "a", "v", "i">>,
   <<".", "m", "o", "v">>,
   <<".", "w", "a", "v">>,
   <<".", "j", "s", "o", "n">>,
   <<".", "x", "m", "l">>,
   <<".", "c", "s", "v">>,
   <<".", "t", "x", "t">>,
   <<".", "l", "o", "g">>,
   <<".", "w", "o", "f", "f">>,
   <<".", "w", "o", "f", "f", "2">>,
   <<".", "t", "t", "f">>,
   <<".", "e", "o", "t">>,
   <<".", "c", "s", "s">>,
   <<".", "j", "s">>,
   <<".", "m", "a", "p">>}

\* if not url: the empty string (and None) is rejected; then urlparse must
\* give a scheme and a netloc
FormatOk(url) == url # <<>> /\ Scheme(url) # <<>> /\ Netloc(url) # <<>>

\* any(url_lower.endswith(ext) for ext in file_extensions)
EndsWithFileExtension(url) == \E ext \in file_extensions : EndsWith(Lower(url), ext)

\* "." of a regular expression matches s[i..j]: no line break
DotRun(s, i, j) == \A k \in i..j : s[k] # "\n"

\* re.search(r"\$\{.*\}", s)
SearchDollarBrace(s) ==
  \E i \in 1..Len(s), j \in 1..Len(s) :
    OccursAt(s, <<"$", "{">>, i) /\ j >= i + 2 /\ s[j] = "}" /\ DotRun(s, i + 2, j - 1)

\* re.search(r"\{\{.*\}\}", s)
SearchDoubleBrace(s) ==
  \E i \in 1..Len(s), j \in 1..Len(s) :
    /\ OccursAt(s, <<"{", "{">>, i) /\ j >= i + 2
    /\ OccursAt(s, <<"}", "}">>, j) /\ DotRun(s, i + 2, j - 1)

\* re.search(r"<[^>]*>", s)
SearchAngle(s) == \E i \in 1..Len(s), j \in 1..Len(s) : s[i] = "<" /\ j > i /\ s[j] = ">"

\* re.search(r"\*", s)
SearchStar(s) == Contains(s, <<"*">>)

\* re.search(w, s, re.IGNORECASE) for a word w, and for the pattern .*w.*
SearchIgnoreCase(w, s) == Contains(Lower(s), Lower(w))

\* the wildcard pattern is missing from the list
SearchInvalidNoStar(s) ==
  \/ SearchDollarBrace(s) \/ SearchDoubleBrace(s) \/ SearchAngle(s)
  \/ SearchIgnoreCase(<<"u", "n", "d", "e", "f", "i", "n", "e", "d">>, s)
  \/ SearchIgnoreCase(<<"n", "u", "l", "l">>, s)

\* any(re.search(pattern, decoded_url, re.IGNORECASE) for pattern in
\* invalid_patterns)
SearchInvalid(s) ==
  \/ SearchDollarBrace(s) \/ SearchDoubleBrace(s) \/ SearchAngle(s) \/ SearchStar(s)
  \/ SearchIgnoreCase(<<"u", "n", "d", "e", "f", "i", "n", "e", "d">>, s)
  \/ SearchIgnoreCase(<<"n", "u", "l", "l">>, s)

\* url.startswith(self.domain)
DomainOk(url, dom) == StartsWith(url, dom)

\* not (include_patterns and not any(re.search(...)))
IncludeOk(url, patterns) ==
  patterns.include = {} \/ \E w \in patterns.include : SearchIgnoreCase(w, url)

\* an exclude pattern counts only when no include pattern matches
ExcludeHitUnlessIncluded(url, patterns) ==
  /\ \E w \in patterns.exclude : SearchIgnoreCase(w, url)
  /\ ~\E w \in patterns.include : SearchIgnoreCase(w, url)

\* exclude_patterns and any(re.search(...))
ExcludeHit(url, patterns) ==
  patterns.exclude # {} /\ \E w \in patterns.exclude : SearchIgnoreCase(w, url)

\* is_valid_url(url) with self.domain = dom and self.url_patterns = patterns
ValidText(url, dom, patterns) ==
  /\ FormatOk(url)
  /\ ~EndsWithFileExtension(url)
  /\ ~SearchInvalid(unquote(url))
  /\ \/ dom = <<>>
     \/ /\ DomainOk(url, dom)
        /\ IncludeOk(url, patterns)
        /\ ~ExcludeHit(url, patterns)

(***************************************************************************)
(* is_valid_url called by itself, as the tests do: self.domain and         *)
(* self.url_patterns are set on a new crawler and the method is called     *)
(* with a URL.  In this specification domain and url_patterns hold text.   *)
(***************************************************************************)
\* scheme and host of the URLs given to is_valid_url ("a.io": no scheme)
Origins ==
  {<<"h", "t", "t", "p", "s", ":", "/", "/", "a", ".", "i", "o">>,
   <<"h", "t", "t", "p", "s", ":", "/", "/", "a", ".", "i", "o", ".", "e", "v", "i", "l", ".", "o", "r", "g">>,
   <<"h", "t", "t", "p", "s", ":", "/", "/", "b", ".", "i", "o">>,
   <<"h", "t", "t", "p", ":", "/", "/", "a", ".", "i", "o">>,
   <<"a", ".", "i", "o">>}

\* their paths
Paths ==
  {<<>>,
   <<"/", "d", "o", "c", "s", "/">>,
   <<"/", "d", "o", "c", "s", "/", "f", ".", "p", "d", "f">>,
   <<"/", "d", "o", "c", "s", "/", "F", ".", "P", "d", "f">>,
   <<"/", "d", "o", "c", "s", "/", "$", "{", "x", "}">>,
   <<"/", "d", "o", "c", "s", "/", "%", "2", "4", "%", "7", "B", "x", "%", "7", "D">>,
   <<"/", "d", "o", "c", "s", "/", "{", "{", "x", "}", "}">>,
   <<"/", "d", "o", "c", "s", "/", "a", "*">>,
   <<"/", "d", "o", "c", "s", "/", "%", "2", "a">>,
   <<"/", "l", "o", "g", "i", "n">>,
   <<"/", "d", "o", "c", "s", "/", "l", "o", "g", "i", "n">>,
   <<"/", "D", "o", "c", "s", "/", "x">>,
   <<"/", "b", "l", "o", "g", "/", "x">>,
   <<"/", "d", "o", "c", "s", "/", "N", "u", "l", "l">>}

\* their queries and fragments
Tails ==
  {<<>>,
   <<"?", "d", "l", "=", "1">>,
   <<"?", "f", "=", "a", ".", "p", "d", "f">>,
   <<"#", "t", "o", "p">>,
   <<"#", "a", ".", "p", "d", "f">>}

UrlInputs == {o \o p \o t : o \in Origins, p \in Paths, t \in Tails} \cup {<<>>}

\* self.domain: not set, or https://a.io
DomainInputs == {<<>>, <<"h", "t", "t", "p", "s", ":", "/", "/", "a", ".", "i", "o">>}

\* the words of the include patterns: /docs/ and /blog/
IncludeInputs ==
  {{}, {<<"/", "d", "o", "c", "s", "/">>},
   {<<"/", "d", "o", "c", "s", "/">>, <<"/", "b", "l", "o", "g", "/">>}}

\* the words of the exclude patterns: /login
ExcludeInputs == {{}, {<<"/", "l", "o", "g", "i", "n">>}}

\* the variables of deep_crawl
crawlVars ==
  <<site, run, crawled_urls, results, failed_urls, max_pages, urls_to_crawl,
    current_url, page_data, found_links, result, arun_calls, in_flight, processed,
    sleeps, sleeps_at_fetch>>

\* a new crawler on which deep_crawl is not called; self.base_url, self.domain
\* and self.url_patterns are set by the caller
NotCrawling ==
  /\ site = 1
  /\ run = 0
  /\ crawled_urls = {}
  /\ results = <<>>
  /\ failed_urls = <<>>
  /\ max_pages = 0
  /\ urls_to_crawl = {}
  /\ current_url = NoUrl
  /\ page_data = None
  /\ found_links = {}
  /\ result = Pending
  /\ arun_calls = <<>>
  /\ in_flight = 0
  /\ processed = 0
  /\ sleeps = 0
  /\ sleeps_at_fetch = 0

FilterInit ==
  /\ NotCrawling
  /\ pc = "call"
  /\ base_url = EmptyUrl
  /\ domain \in DomainInputs
  /\ url_patterns \in [include : IncludeInputs, exclude : ExcludeInputs]
  /\ args \in [url : UrlInputs]
  /\ ret = NoRet

\* crawler.is_valid_url(url)
CallIsValidUrl ==
  /\ pc = "call"
  /\ ret' = ValidText(args.url, domain, url_patterns)
  /\ pc' = "returned"
  /\ UNCHANGED <<crawlVars, base_url, domain, url_patterns, args>>

FilterNext == CallIsValidUrl

FilterSpec == FilterInit /\ [][FilterNext]_vars

(***************************************************************************)
(* extract_title_and_description: the title.  The description, the second  *)
(* value returned, is computed from the lines on its own and is left out.  *)
(***************************************************************************)
MaxTitleLines == 3   \* lines of the markdown given to extract_title_and_description

\* s.split(c)
RECURSIVE Split(_, _)
Split(s, c) ==
  LET i == FirstIn(s, {c})
  IN  IF i > Len(s) THEN <<s>>
      ELSE <<SubSeq(s, 1, i - 1)>> \o Split(SubSeq(s, i + 1, Len(s)), c)

\* sep.join(parts)
RECURSIVE Join(_, _)
Join(parts, sep) ==
  IF parts = <<>> THEN <<>>
  ELSE IF Len(parts) = 1 THEN parts[1]
  ELSE parts[1] \o sep \o Join(Tail(parts), sep)

\* s.replace(a, b) for characters a and b
Replace(s, a, b) == [i \in 1..Len(s) |-> IF s[i] = a THEN b ELSE s[i]]

\* s.title(): a letter that follows no letter is made upper case, any other
\* letter lower case
TitleCase(s) ==
  [i \in 1..Len(s) |->
     IF s[i] \in Letters
     THEN IF i = 1 \/ s[i - 1] \notin Letters THEN UpperChar(s[i]) ELSE LowerChar(s[i])
     ELSE s[i]]

\* [line.strip() for line in markdown.split("\n") if line.strip()]
StrippedLines(markdown) ==
  LET all == Split(markdown, "\n")
      stripped == [i \in 1..Len(all) |-> Strip(all[i], WhiteSpace)]
  IN  SelectSeq(stripped, LAMBDA l : l # <<>>)

IsH1(line) == StartsWith(line, <<"#", " ">>)
IsH2(line) == StartsWith(line, <<"#", "#", " ">>)

\* line[2:].strip() of a level-1 heading, line[3:].strip() of a level-2 one
HeadingText(line) ==
  Strip(SubSeq(line, IF IsH1(line) THEN 3 ELSE 4, Len(line)), WhiteSpace)

\* the loop over the lines breaks at the first line that starts with "# " or
\* with "## "; 0 when there is none
FirstHeading(lines) ==
  IF \E i \in 1..Len(lines) : IsH1(lines[i]) \/ IsH2(lines[i])
  THEN CHOOSE i \in 1..Len(lines) :
         /\ IsH1(lines[i]) \/ IsH2(lines[i])
         /\ \A j \in 1..(i - 1) : ~(IsH1(lines[j]) \/ IsH2(lines[j]))
  ELSE 0

Documentation ==
  <<"D", "o", "c", "u", "m", "e", "n", "t", "a", "t", "i", "o", "n">>

\* the fallback: urlparse(url).path.strip("/").split("/")[-1], with "-" and
\* "_" replaced by spaces, title-cased; "Documentation" when it is empty
TitleFromUrl(url) ==
  LET path_parts == Split(Strip(UrlPath(url), {"/"}), "/")
      last == path_parts[Len(path_parts)]
  IN  IF last # <<>> THEN TitleCase(Replace(Replace(last, "-", " "), "_", " "))
      ELSE Documentation

\* the title extract_title_and_description(markdown, url) returns
extract_title(markdown, url) ==
  LET lines == StrippedLines(markdown)
      h == FirstHeading(lines)
  IN  IF h > 0 THEN HeadingText(lines[h]) ELSE TitleFromUrl(url)

\* the lines of the markdown given: # A b, ## B, text, #C, "  # D " and ### E
TitleLineInputs ==
  {<<"#", " ", "A", " ", "b">>,
   <<"#", "#", " ", "B">>,
   <<"t", "e", "x", "t">>,
   <<"#", "C">>,
   <<" ", " ", "#", " ", "D", " ">>,
   <<"#", "#", "#", " ", "E">>}

TitleMarkdownInputs ==
  {Join(ls, <<"\n">>) : ls \in UNION {[1..n -> TitleLineInputs] : n \in 0..MaxTitleLines}}

\* the URLs of the pages
TitleUrlInputs ==
  {<<"h", "t", "t", "p", "s", ":", "/", "/", "a", ".", "i", "o", "/", "d", "o", "c", "s", "/", "i", "n", "s", "t", "a", "l", "l", "a", "t", "i", "o", "n", "-", "g", "u", "i", "d", "e">>,
   <<"h", "t", "t", "p", "s", ":", "/", "/", "a", ".", "i", "o", "/", "d", "o", "c", "s", "/", "a", "_", "b", "2", "c", "/">>,
   <<"h", "t", "t", "p", "s", ":", "/", "/", "a", ".", "i", "o", "/">>,
   <<"h", "t", "t", "p", "s", ":", "/", "/", "a", ".", "i", "o">>}

TitleInit ==
  /\ NotCrawling
  /\ pc = "call"
  /\ base_url = EmptyUrl
  /\ domain = <<>>
  /\ url_patterns = [include |-> {}, exclude |-> {}]
  /\ args \in [markdown : TitleMarkdownInputs, url : TitleUrlInputs]
  /\ ret = NoRet

\* crawler.extract_title_and_description(markdown, url)[0]
CallExtractTitle ==
  /\ pc = "call"
  /\ ret' = extract_title(args.markdown, args.url)
  /\ pc' = "returned"
  /\ UNCHANGED <<crawlVars, base_url, domain, url_patterns, args>>

TitleNext == CallExtractTitle

TitleSpec == TitleInit /\ [][TitleNext]_vars

(***************************************************************************)
(* urllib.parse.urljoin, for URLs without ";parameters".                   *)
(***************************************************************************)
\* the position of the first character of s in cs at or after position from;
\* Len(s) + 1 when there is none
NextIn(s, cs, from) ==
  IF from > Len(s) THEN Len(s) + 1
  ELSE from - 1 + FirstIn(SubSeq(s, from, Len(s)), cs)

\* urlparse(url).fragment: after the first "#"
Fragment(url) ==
  LET r == AfterNetloc(url) IN SubSeq(r, FirstIn(r, {"#"}) + 1, Len(r))

\* urlparse(url).query: after the first "?" of the text before the fragment
Query(url) ==
  LET r == AfterNetloc(url)
      b == SubSeq(r, 1, FirstIn(r, {"#"}) - 1)
  IN  SubSeq(b, FirstIn(b, {"?"}) + 1, Len(b))

\* uses_relative and uses_netloc: of the schemes of the URLs modelled, http,
\* https and ftp (and the empty scheme) are in both lists
UsesRelative ==
  {<<>>,
   <<"h", "t", "t", "p">>,
   <<"h", "t", "t", "p", "s">>,
   <<"f", "t", "p">>}

UsesNetloc == UsesRelative

\* urlunparse((scheme, netloc, path, "", query, fragment))
urlunparse(scheme, netloc, path, query, fragment) ==
  LET slashed ==
        IF netloc # <<>> \/ (scheme # <<>> /\ scheme \in UsesNetloc
                              /\ ~StartsWith(path, <<"/", "/">>))
        THEN <<"/", "/">> \o netloc
             \o (IF path # <<>> /\ path[1] # "/" THEN <<"/">> ELSE <<>>) \o path
        ELSE path
  IN  (IF scheme # <<>> THEN scheme \o <<":">> ELSE <<>>) \o slashed
      \o (IF query # <<>> THEN <<"?">> \o query ELSE <<>>)
      \o (IF fragment # <<>> THEN <<"#">> \o fragment ELSE <<>>)

\* the loop over segments: ".." removes the last segment resolved so far, if
\* any, "." is dropped
RECURSIVE ResolveSegments(_, _)
ResolveSegments(segments, resolved_path) ==
  IF segments = <<>> THEN resolved_path
  ELSE IF Head(segments) = <<".", ".">>
       THEN ResolveSegments(Tail(segments),
                            SubSeq(resolved_path, 1, Len(resolved_path) - 1))
       ELSE IF Head(segments) = <<".">>
            THEN ResolveSegments(Tail(segments), resolved_path)
            ELSE ResolveSegments(Tail(segments), Append(resolved_path, Head(segments)))

\* segments[1:-1] = filter(None, segments[1:-1])
DropEmptyInside(segments) ==
  IF Len(segments) <= 2 THEN segments
  ELSE <<segments[1]>>
       \o SelectSeq(SubSeq(segments, 2, Len(segments) - 1), LAMBDA seg : seg # <<>>)
       \o <<segments[Len(segments)]>>

\* the path urljoin gives a reference with the path "path" under a base with
\* the path bpath
JoinedPath(bpath, path) ==
  LET parts == Split(bpath, "/")
      base_parts == IF parts[Len(parts)] # <<>> THEN SubSeq(parts, 1, Len(parts) - 1)
                    ELSE parts
      segments == IF StartsWith(path, <<"/">>) THEN Split(path, "/")
                  ELSE DropEmptyInside(base_parts \o Split(path, "/"))
      last == segments[Len(segments)]
      resolved == ResolveSegments(segments, <<>>)
                  \o (IF last \in {<<".">>, <<".", ".">>} THEN <<<<>>>> ELSE <<>>)
      joined == Join(resolved, <<"/">>)
  IN  IF joined = <<>> THEN <<"/">> ELSE joined

\* urljoin(base, url)
urljoin(base, url) ==
  LET bscheme == Scheme(base)
      scheme == IF Scheme(url) # <<>> THEN Scheme(url) ELSE bscheme
  IN  IF base = <<>> THEN url
      ELSE IF url = <<>> THEN base
      ELSE IF scheme # bscheme \/ scheme \notin UsesRelative THEN url
      ELSE IF scheme \in UsesNetloc /\ Netloc(url) # <<>>
           THEN urlunparse(scheme, Netloc(url), UrlPath(url), Query(url), Fragment(url))
      ELSE IF UrlPath(url) = <<>>
           THEN urlunparse(scheme, Netloc(base), UrlPath(base),
                           IF Query(url) # <<>> THEN Query(url) ELSE Query(base),
                           Fragment(url))
      ELSE urlunparse(scheme, Netloc(base), JoinedPath(UrlPath(base), UrlPath(url)),
                      Query(url), Fragment(url))

(***************************************************************************)
(* extract_links_from_content on the text of a page.                       *)
(***************************************************************************)
MaxLinks == 2   \* markdown links on the page given to extract_links_from_content

\* r"\[([^\]]+)\]\(([^)]+)\)" matched at position i of s: "[", one character
\* or more up to the next "]", "(", one character or more up to the next ")"
MarkdownLinkAt(s, i) ==
  LET j == NextIn(s, {"]"}, i + 1)
      k == NextIn(s, {")"}, j + 2)
  IN  [found  |-> /\ s[i] = "[" /\ j >= i + 2 /\ j + 1 <= Len(s) /\ s[j + 1] = "("
                  /\ k >= j + 3 /\ k <= Len(s),
       text   |-> SubSeq(s, i + 1, j - 1),
       target |-> SubSeq(s, j + 2, k - 1),
       end    |-> k]

\* r'href=["\']([^"\']+)["\']' with re.IGNORECASE matched at position i of s
HrefAt(s, i) ==
  LET k == NextIn(s, {"\"", "'"}, i + 6)
  IN  [found  |-> /\ OccursAt(Lower(s), <<"h", "r", "e", "f", "=">>, i)
                  /\ i + 5 <= Len(s) /\ s[i + 5] \in {"\"", "'"}
                  /\ k >= i + 7 /\ k <= Len(s),
       target |-> SubSeq(s, i + 6, k - 1),
       end    |-> k]

\* re.findall: the targets of the matches found from position i on, left to
\* right, each search starting after the match before it
RECURSIVE MarkdownTargets(_, _)
MarkdownTargets(s, i) ==
  IF i > Len(s) THEN {}
  ELSE LET m == MarkdownLinkAt(s, i)
       IN  IF m.found THEN {m.target} \cup MarkdownTargets(s, m.end + 1)
           ELSE MarkdownTargets(s, i + 1)

RECURSIVE HrefTargets(_, _)
HrefTargets(s, i) ==
  IF i > Len(s) THEN {}
  ELSE LET m == HrefAt(s, i)
       IN  IF m.found THEN {m.target} \cup HrefTargets(s, m.end + 1)
           ELSE HrefTargets(s, i + 1)

\* the prefixes of the targets that are not resolved
MarkdownSkipped ==
  {<<"h", "t", "t", "p">>,
   <<"/", "/">>,
   <<"m", "a", "i", "l", "t", "o", ":">>,
   <<"t", "e", "l", ":">>}

HrefSkipped ==
  MarkdownSkipped
  \cup {<<"j", "a", "v", "a", "s", "c", "r", "i", "p", "t", ":">>}

\* url.startswith((...))
StartsWithAny(url, prefixes) == \E p \in prefixes : StartsWith(url, p)

\* the targets that are resolved: of the markdown links and of the hrefs
ResolvedTargets(html, markdown) ==
  {t \in MarkdownTargets(markdown, 1) : ~StartsWithAny(t, MarkdownSkipped)}
  \cup {t \in HrefTargets(html, 1) : ~StartsWithAny(t, HrefSkipped)}

\* extract_links_from_content(html, markdown, base_url) with self.domain =
\* dom and self.url_patterns = patterns
extract_links(html, markdown, base, dom, patterns) ==
  {full_url \in {urljoin(base, t) : t \in ResolvedTargets(html, markdown)} :
     ValidText(full_url, dom, patterns)}

\* the targets of the markdown links of the page
MarkdownTargetInputs ==
  {<<"/", "d", "o", "c", "s", "/", "l", "o", "c", "a", "l">>,
   <<"g", "u", "i", "d", "e">>,
   <<"h", "t", "t", "p", "-", "a", "p", "i", "/">>,
   <<"h", "t", "t", "p", "s", ":", "/", "/", "b", ".", "i", "o", "/", "x">>,
   <<" ", "/", "/", "a", ".", "i", "o", ".", "e", "v", "i", "l", ".", "o", "r", "g", "/", "d", "o", "c", "s", "/">>,
   <<".", ".", "/", "f", ".", "p", "d", "f">>}

\* [x](target)
MarkdownLink(target) == <<"[", "x", "]", "(">> \o target \o <<")">>

\* up to MaxLinks links, with a space between them
LinkMarkdownInputs ==
  {Join([i \in 1..n |-> MarkdownLink(ts[i])], <<" ">>) :
     n \in 0..MaxLinks, ts \in [1..MaxLinks -> MarkdownTargetInputs]}

\* the HTML of the page: nothing, or one anchor
HtmlInputs ==
  {<<>>,
   <<"<", "a", " ", "h", "r", "e", "f", "=", "\"", "/", "d", "o", "c", "s", "/", "g", "u", "i", "d", "e", "\"", ">">>,
   <<"<", "A", " ", "H", "R", "E", "F", "=", "'", "h", "t", "t", "p", "d", ".", "h", "t", "m", "l", "'", ">">>,
   <<"<", "a", " ", "h", "r", "e", "f", "=", "\"", "/", "/", "b", ".", "i", "o", "/", "d", "o", "c", "s", "/", "\"", ">">>,
   <<"<", "a", " ", "h", "r", "e", "f", "=", "\"", "j", "a", "v", "a", "s", "c", "r", "i", "p", "t", ":", "v", "(", "0", ")", "\"", ">">>,
   <<"<", "a", " ", "h", "r", "e", "f", "=", "\"", ".", "/", "x", "/", ".", ".", "/", "#", "t", "o", "p", "\"", ">">>}

\* the URL of the page: a directory, and a page with a query
BaseUrlInputs ==
  {<<"h", "t", "t", "p", "s", ":", "/", "/", "a", ".", "i", "o", "/", "d", "o", "c", "s", "/">>,
   <<"h", "t", "t", "p", "s", ":", "/", "/", "a", ".", "i", "o", "/", "d", "o", "c", "s", "/", "p", "a", "g", "e", "?", "q", "=", "1">>}

\* include patterns: ".*", and the word /docs/
LinkIncludeInputs == {{<<>>}, {<<"/", "d", "o", "c", "s", "/">>}}

LinkInit ==
  /\ NotCrawling
  /\ pc = "call"
  /\ base_url = EmptyUrl
  /\ domain = <<"h", "t", "t", "p", "s", ":", "/", "/", "a", ".", "i", "o">>
  /\ url_patterns \in [include : LinkIncludeInputs, exclude : {{}}]
  /\ args \in [html : HtmlInputs, markdown : LinkMarkdownInputs, base_url : BaseUrlInputs]
  /\ ret = NoRet

\* crawler.extract_links_from_content(html, markdown, base_url)
CallExtractLinks ==
  /\ pc = "call"
  /\ ret' = extract_links(args.html, args.markdown, args.base_url, domain, url_patterns)
  /\ pc' = "returned"
  /\ UNCHANGED <<crawlVars, base_url, domain, url_patterns, args>>

LinkNext == CallExtractLinks

LinkSpec == LinkInit /\ [][LinkNext]_vars

(***************************************************************************)
(* create_chunks, estimate_tokens and _create_chunk_info.  A page is a     *)
(* dict with the keys create_chunks reads: url, title, path, markdown and  *)
(* word_count.  generated_at, the time of the call, is left out of the     *)
(* manifest.                                                               *)
(***************************************************************************)
MaxChunkPages == 3   \* pages in the list given to create_chunks

\* str(n) for n >= 0
DigitChars == <<"0", "1", "2", "3", "4", "5", "6", "7", "8", "9">>
RECURSIVE Str(_)
Str(n) == IF n < 10 THEN <<DigitChars[n + 1]>> ELSE Str(n \div 10) \o <<DigitChars[(n % 10) + 1]>>

\* f"{n:02d}"
Pad2(n) == IF n < 10 THEN <<"0">> \o Str(n) ELSE Str(n)

\* [c] * n
Repeat(c, n) == [i \in 1..n |-> c]

\* s.find(p) + 1: the first position at which p occurs in s; 0 when none
Find(s, p) ==
  LET hits == {i \in 1..Len(s) : OccursAt(s, p, i)}
  IN  IF hits = {} THEN 0 ELSE CHOOSE i \in hits : \A j \in hits : i <= j

\* s.replace(old, new): every occurrence, left to right, none overlapping
RECURSIVE ReplaceAll(_, _, _)
ReplaceAll(s, old, new) ==
  LET i == Find(s, old)
  IN  IF i = 0 THEN s
      ELSE SubSeq(s, 1, i - 1) \o new
           \o ReplaceAll(SubSeq(s, i + Len(old), Len(s)), old, new)

\* s.count(c)
Count(s, c) == Cardinality({i \in 1..Len(s) : s[i] = c})

\* ord(c)
Ord(c) ==
  CASE c = "\n" -> 10
    [] c = "\t" -> 9
    [] OTHER -> 31 + CHOOSE i \in 1..Len(Printable) : Printable[i] = c

\* a < b for strings
RECURSIVE TextLess(_, _)
TextLess(a, b) ==
  IF b = <<>> THEN FALSE
  ELSE IF a = <<>> THEN TRUE
  ELSE IF a[1] # b[1] THEN Ord(a[1]) < Ord(b[1])
  ELSE TextLess(Tail(a), Tail(b))

\* the sort key of x is less than that of y: (path.count("/"), path)
KeyLess(x, y) ==
  \/ Count(x.path, "/") < Count(y.path, "/")
  \/ Count(x.path, "/") = Count(y.path, "/") /\ TextLess(x.path, y.path)

\* sorted(results, key=...): stable
RECURSIVE sorted_results(_)
sorted_results(rs) ==
  IF rs = <<>> THEN <<>>
  ELSE LET before == sorted_results(SubSeq(rs, 1, Len(rs) - 1))
           x == rs[Len(rs)]
       IN  SelectSeq(before, LAMBDA y : ~KeyLess(x, y)) \o <<x>>
           \o SelectSeq(before, LAMBDA y : KeyLess(x, y))

\* estimate_tokens(text)
estimate_tokens(text) == Len(text) \div 4

\* [total_chunks_placeholder]
Placeholder == <<"[", "t", "o", "t", "a", "l", "_", "c", "h", "u", "n", "k",
  "s", "_", "p", "l", "a", "c", "e", "h", "o", "l", "d", "e", "r", "]">>

\* the default of site_name
site_name == <<"d", "o", "c", "s">>

\* self.base_url
ChunkBaseUrl == <<"h", "t", "t", "p", "s", ":", "/", "/", "a", ".", "i", "o">>

\* the header of chunk number n, self.base_url being source
ChunkHeader(n, source) ==
  <<"#", " ">> \o TitleCase(site_name)
  \o <<" ", "D", "o", "c", "u", "m", "e", "n", "t", "a", "t", "i", "o", "n", " ", "-",
       " ", "C", "h", "u", "n", "k", " ">> \o Str(n) \o <<"\n", "\n">>
  \o <<"*", "*", "S", "o", "u", "r", "c", "e", "*", "*", ":", " ">> \o source
  \o <<"\n">>
  \o <<"*", "*", "C", "h", "u", "n", "k", "*", "*", ":", " ">> \o Str(n)
  \o <<" ", "o", "f", " ">> \o Placeholder \o <<"\n">>

\* page_content of a page
PageContent(r) ==
  <<"\n", "\n", "#", "#", " ">> \o r.title \o <<"\n", "\n">>
  \o <<"*", "*", "U", "R", "L", ":", "*", "*", " ">> \o r.url \o <<"\n">>
  \o <<"*", "*", "P", "a", "t", "h", ":", "*", "*", " ", "backtick">> \o r.path
  \o <<"backtick", "\n", "\n">>
  \o r.markdown

\* the entry of a page in current_chunk_pages
PageRef(r) == [url |-> r.url, title |-> r.title, word_count |-> r.word_count]

RECURSIVE SumWords(_)
SumWords(pages) == IF pages = <<>> THEN 0 ELSE pages[1].word_count + SumWords(Tail(pages))

\* re.sub(r"[^\w\-_]", "-", main_topic.lower())[:30]
SafeTopic(main_topic) ==
  LET low == Lower(main_topic)
      sub == [i \in 1..Len(low) |->
                IF low[i] \in Letters \cup Digits \cup {"_", "-"} THEN low[i] ELSE "-"]
  IN  SubSeq(sub, 1, Min(30, Len(sub)))

\* the navigation lines added to the content of every chunk but the first
NavigationContext(n) ==
  <<"\n", "\n", "-", "-", "-", "\n", "*", "*", "N", "a", "v", "i", "g", "a", "t", "i",
    "o", "n", " ", "C", "o", "n", "t", "e", "x", "t", "*", "*", ":", "\n">>
  \o <<"-", " ", "P", "r", "e", "v", "i", "o", "u", "s", ":", " ", "[", "C", "h", "u",
       "n", "k", " ">> \o Str(n - 1) \o <<"]", "\n">>
  \o <<"-", " ", "N", "e", "x", "t", ":", " ", "[", "C", "h", "u", "n", "k", " ">>
  \o Str(n + 1)
  \o <<"]", " ", "(", "i", "f", " ", "a", "v", "a", "i", "l", "a", "b", "l", "e", ")",
       "\n">>
  \o <<"-", " ", "I", "n", "d", "e", "x", ":", " ", "S", "e", "e", " ", "c", "h", "u",
       "n", "k", "_", "m", "a", "n", "i", "f", "e", "s", "t", ".", "j", "s", "o", "n",
       " ", "f", "o", "r", " ", "c", "o", "m", "p", "l", "e", "t", "e", " ", "t", "o",
       "p", "i", "c", " ", "m", "a", "p", "\n">>

\* f"{site_name}_chunk_{chunk_number:02d}_{safe_topic}.md"
ChunkFilename(n, topics) ==
  site_name \o <<"_", "c", "h", "u", "n", "k", "_">> \o Pad2(n) \o <<"_">>
  \o SafeTopic(IF topics # <<>> THEN topics[1] ELSE <<"c", "o", "n", "t", "e", "n", "t">>)
  \o <<".", "m", "d">>

\* _create_chunk_info(chunk_number, content, topics, pages, site_name)
create_chunk_info(n, content, topics, pages) ==
  [chunk_number |-> n,
   filename |-> ChunkFilename(n, topics),
   content |-> IF n > 1 THEN content \o NavigationContext(n) ELSE content,
   topics |-> topics,
   pages |-> pages,
   word_count |-> SumWords(pages),
   estimated_tokens |-> estimate_tokens(content)]

\* the entry appended to chunk_manifest["chunks"]
ManifestEntry(n, content, topics, pages) ==
  [chunk_number |-> n,
   filename |-> ChunkFilename(n, topics),
   topics |-> Join(SubSeq(topics, 1, Min(3, Len(topics))), <<",", " ">>),
   page_count |-> Len(pages),
   word_count |-> SumWords(pages),
   estimated_tokens |-> estimate_tokens(content)]

\* every page is taken into the current chunk
FitsAlways(test_content, chunk_size, current_chunk_content) == TRUE

\* estimated_tokens <= chunk_size or not current_chunk_content
Fits(test_content, chunk_size, current_chunk_content) ==
  estimate_tokens(test_content) <= chunk_size \/ current_chunk_content = <<>>

\* the locals of create_chunks before the loop
LoopStart ==
  [chunks |-> <<>>, manifest_chunks |-> <<>>, content |-> <<>>, topics |-> <<>>,
   pages |-> <<>>, number |-> 1]

\* the chunk under construction is appended to chunks only
ClosedChunkOnly(st) ==
  [st EXCEPT !.chunks = Append(@, create_chunk_info(st.number, st.content, st.topics,
                                                   st.pages))]

\* the chunk under construction is closed: appended to chunks and to the
\* manifest
Closed(st) ==
  [st EXCEPT !.chunks = Append(@, create_chunk_info(st.number, st.content, st.topics,
                                                   st.pages)),
             !.manifest_chunks = Append(@, ManifestEntry(st.number, st.content,
                                                         st.topics, st.pages))]

\* one pass of the loop over sorted_results, for the page r
AddPage(st, r, chunk_size, source) ==
  IF Fits(st.content \o PageContent(r), chunk_size, st.content)
  THEN [st EXCEPT !.content = (IF @ = <<>> THEN ChunkHeader(st.number, source) ELSE @)
                              \o PageContent(r),
                  !.topics = Append(@, r.title),
                  !.pages = Append(@, PageRef(r))]
  ELSE [(IF st.content # <<>> THEN Closed(st) ELSE st)
          EXCEPT !.number = st.number + 1,
                 !.content = ChunkHeader(st.number + 1, source) \o PageContent(r),
                 !.topics = <<r.title>>,
                 !.pages = <<PageRef(r)>>]

RECURSIVE ChunkLoop(_, _, _, _)
ChunkLoop(st, rs, chunk_size, source) ==
  IF rs = <<>> THEN st
  ELSE ChunkLoop(AddPage(st, Head(rs), chunk_size, source), Tail(rs), chunk_size, source)

\* create_chunks(rs, chunk_size) with self.base_url = source: the
\* chunks, with the placeholder replaced, and the manifest
create_chunks(rs, chunk_size, source) ==
  LET st == ChunkLoop(LoopStart, sorted_results(rs), chunk_size, source)
      final == IF st.content # <<>> THEN Closed(st) ELSE st
      total == Len(final.chunks)
  IN  [chunks |->
         [k \in 1..total |->
            [final.chunks[k] EXCEPT !.content = ReplaceAll(@, Placeholder, Str(total))]],
       manifest |->
         [site_name |-> site_name, source_url |-> source, total_chunks |-> total,
          chunk_size_target |-> chunk_size, chunks |-> final.manifest_chunks]]

\* the pages given: a long page, a short page one level down, a page whose
\* text holds the placeholder, and the home page
PageInputs ==
  {[url |-> <<"h", "t", "t", "p", "s", ":", "/", "/", "a", ".", "i", "o", "/", "a">>,
    title |-> <<"A">>, path |-> <<"a">>,
    markdown |-> Repeat("x", 100),
    word_count |-> 1],
   [url |-> <<"h", "t", "t", "p", "s", ":", "/", "/", "a", ".", "i", "o", "/", "b", "/", "c">>,
    title |-> <<"B", " ", "c">>, path |-> <<"b", "/", "c">>,
    markdown |-> <<"b", "e", "t", "a", " ", "p", "a", "g", "e">>,
    word_count |-> 2],
   [url |-> <<"h", "t", "t", "p", "s", ":", "/", "/", "a", ".", "i", "o", "/", "c">>,
    title |-> <<"C">>, path |-> <<"c">>,
    markdown |-> <<"s", "e", "e", " ", "[", "t", "o", "t", "a", "l", "_", "c", "h", "u", "n", "k", "s", "_", "p", "l", "a", "c", "e", "h", "o", "l", "d", "e", "r", "]">>,
    word_count |-> 2],
   [url |-> <<"h", "t", "t", "p", "s", ":", "/", "/", "a", ".", "i", "o", "/">>,
    title |-> <<"H", "o", "m", "e">>, path |-> <<"h", "o", "m", "e">>,
    markdown |-> Repeat("y", 41),
    word_count |-> 1]}

\* lists of up to MaxChunkPages pages, no page twice
ResultInputs ==
  {rs \in UNION {[1..n -> PageInputs] : n \in 0..MaxChunkPages} :
     \A i, j \in 1..Len(rs) : i # j => rs[i] # rs[j]}

\* chunk_size, in tokens: around the sizes of one, two and three pages
ChunkSizeInputs == {0, 44, 59, 63, 67, 83, 104}

ChunkInit ==
  /\ NotCrawling
  /\ pc = "call"
  /\ base_url = ChunkBaseUrl
  /\ domain = <<>>
  /\ url_patterns = [include |-> {}, exclude |-> {}]
  /\ args \in [results : ResultInputs, chunk_size : ChunkSizeInputs]
  /\ ret = NoRet

\* crawler.create_chunks(results, chunk_size)
CallCreateChunks ==
  /\ pc = "call"
  /\ ret' = create_chunks(args.results, args.chunk_size, base_url)
  /\ pc' = "returned"
  /\ UNCHANGED <<crawlVars, base_url, domain, url_patterns, args>>

ChunkNext == CallCreateChunks

ChunkSpec == ChunkInit /\ [][ChunkNext]_vars

(***************************************************************************)
(* clean_markdown_for_llm.  Every regular expression of the method is an   *)
(* operator that gives, for a text and a position, the position of the     *)
(* last character of the match that starts there, and 0 when no match      *)
(* starts there; re.sub is Sub, given these positions and the text to put  *)
(* in for each.  The two arrows of the navigation pattern are the          *)
(* characters LeftArrow and RightArrow.                                    *)
(***************************************************************************)
MaxPieces == 3   \* pieces of markdown joined into the text given to the cleaner

\* the position after the run of characters of cs that starts at i
RunEnd(s, i, cs) == NextIn(s, SeqRange(s) \ cs, i)

\* the number of "\n" in s[a..b], and the position of the last of them; 0
\* when there is none
Newlines(s, a, b) == Cardinality({j \in a..b : j <= Len(s) /\ s[j] = "\n"})
LastNewline(s, a, b) ==
  LET hits == {j \in a..b : j <= Len(s) /\ s[j] = "\n"}
  IN  IF hits = {} THEN 0 ELSE CHOOSE j \in hits : \A k \in hits : k <= j

\* re.sub(pattern, repl, s), where ends[i] is the end of the match of the
\* pattern that starts at i and repl[i] the text put in for it: the matches
\* are looked for from left to right, none overlapping, and what is put in
\* is not looked at again
RECURSIVE SubFrom(_, _, _, _)
SubFrom(s, ends, repl, i) ==
  IF i > Len(s) THEN <<>>
  ELSE IF ends[i] >= i THEN repl[i] \o SubFrom(s, ends, repl, ends[i] + 1)
  ELSE <<s[i]>> \o SubFrom(s, ends, repl, i + 1)
Sub(s, ends, repl) == SubFrom(s, ends, repl, 1)

\* the element of a set of one element: a text is worked out once, before
\* the step that is given it looks at its characters
TheOne(S) == CHOOSE x \in S : TRUE

LeftArrow == "U+2190"
RightArrow == "U+2192"

\* ui_patterns, by the words of each pattern
NavigationWords ==
  {<<"S", "k", "i", "p", " ", "t", "o">>,
   <<"N", "a", "v", "i", "g", "a", "t", "i", "o", "n">>,
   <<"M", "e", "n", "u">>,
   <<"S", "e", "a", "r", "c", "h">>,
   <<"T", "o", "g", "g", "l", "e">>,
   <<"C", "o", "o", "k", "i", "e">>,
   <<"P", "r", "i", "v", "a", "c", "y">>,
   <<"A", "c", "c", "e", "p", "t">>,
   <<"R", "e", "j", "e", "c", "t">>}
SiteWords ==
  {<<"H", "o", "m", "e">>,
   <<"D", "o", "c", "s">>,
   <<"D", "o", "c", "u", "m", "e", "n", "t", "a", "t", "i", "o", "n">>,
   <<"D", "o", "w", "n", "l", "o", "a", "d">>,
   <<"G", "i", "t", "H", "u", "b">>,
   <<"T", "w", "i", "t", "t", "e", "r">>,
   <<"F", "a", "c", "e", "b", "o", "o", "k">>,
   <<"L", "i", "n", "k", "e", "d", "I", "n">>}
BulletWords ==
  {<<"H", "o", "m", "e">>,
   <<"D", "o", "c", "s">>,
   <<"D", "o", "w", "n", "l", "o", "a", "d">>,
   <<"B", "a", "c", "k", " ", "t", "o", " ", "t", "o", "p">>,
   <<"T", "a", "b", "l", "e", " ", "o", "f", " ", "c", "o", "n", "t", "e", "n", "t", "s">>}
EditWords ==
  {<<"E", "d", "i", "t", " ", "t", "h", "i", "s", " ", "p", "a", "g", "e">>,
   <<"E", "d", "i", "t", " ", "o", "n", " ", "G", "i", "t", "H", "u", "b">>,
   <<"I", "m", "p", "r", "o", "v", "e", " ", "t", "h", "i", "s", " ", "d", "o", "c">>}
DateWords ==
  {<<"L", "a", "s", "t", " ", "u", "p", "d", "a", "t", "e", "d">>,
   <<"L", "a", "s", "t", " ", "m", "o", "d", "i", "f", "i", "e", "d">>,
   <<"P", "u", "b", "l", "i", "s", "h", "e", "d">>,
   <<"C", "r", "e", "a", "t", "e", "d">>}
ShareWords ==
  {<<"S", "h", "a", "r", "e">>,
   <<"P", "r", "i", "n", "t">>,
   <<"C", "o", "p", "y", " ", "l", "i", "n", "k">>,
   <<"P", "e", "r", "m", "a", "l", "i", "n", "k">>}
ArrowWords ==
  {<<"P", "r", "e", "v", "i", "o", "u", "s">>,
   <<"N", "e", "x", "t">>, <<LeftArrow>>, <<RightArrow>>, <<"<">>, <<">">>}

\* re.match(r"^(w1|w2|...).*$", line, re.IGNORECASE)
MatchPrefix(line, words) == \E w \in words : StartsWith(Lower(line), Lower(w))
\* re.match(r"^(w1|w2|...)$", line, re.IGNORECASE)
MatchWhole(line, words) == \E w \in words : Lower(line) = Lower(w)
\* re.match(r"^\s*\*\s*(w1|w2|...).*$", line, re.IGNORECASE)
MatchBullet(line, words) ==
  LET a == RunEnd(line, 1, WhiteSpace)
  IN  /\ OccursAt(line, <<"*">>, a)
      /\ MatchPrefix(SubSeq(line, RunEnd(line, a + 1, WhiteSpace), Len(line)), words)
\* re.match(r"^\s*\[.*\]\(#.*\)\s*$", line)
MatchAnchorOnly(line) ==
  LET a == RunEnd(line, 1, WhiteSpace)
      z == LastIn(line, SeqRange(line) \ WhiteSpace)
  IN  /\ OccursAt(line, <<"[">>, a)
      /\ z >= 1 /\ line[z] = ")"
      /\ \E i \in (a + 1)..(z - 3) : OccursAt(line, <<"]", "(", "#">>, i)
\* re.match(r"^\s*[\*\-\+]\s*$", line)
MatchEmptyItem(line) == Strip(line, WhiteSpace) \in {<<"*">>, <<"-">>, <<"+">>}
\* re.match(r"^(w1|w2|...)(\s|$)", line, re.IGNORECASE)
MatchArrow(line, words) ==
  \E w \in words :
    /\ StartsWith(Lower(line), Lower(w))
    /\ Len(line) = Len(w) \/ line[Len(w) + 1] \in WhiteSpace

\* any(re.match(pattern, line, re.IGNORECASE) for pattern in ui_patterns)
MatchesUi(line) ==
  \/ MatchPrefix(line, NavigationWords)
  \/ MatchWhole(line, SiteWords)
  \/ MatchBullet(line, BulletWords)
  \/ MatchAnchorOnly(line)
  \/ MatchPrefix(line, EditWords)
  \/ MatchPrefix(line, DateWords)
  \/ MatchPrefix(line, ShareWords)
  \/ MatchEmptyItem(line)
  \/ MatchArrow(line, ArrowWords)

\* the short lines that are kept
ShortLinesKept ==
  {<<"#">>, <<"#", "#">>, <<"#", "#", "#">>, <<"#", "#", "#", "#">>,
   <<"-", "-", "-">>, <<"*", "*", "*">>}

\* r"^\s{8,}"
IndentEnd(s, i) ==
  IF i = 1 /\ RunEnd(s, 1, WhiteSpace) - 1 >= 8 THEN RunEnd(s, 1, WhiteSpace) - 1 ELSE 0

\* a link [text](target) whose target starts with the text opener after the
\* "(": the text has one character or more and no "]", and the target runs
\* to the first ")", with none of the characters stops before it
LinkEnd(s, i, opener, stops) ==
  LET k == NextIn(s, {"]"}, i + 1)
      p == NextIn(s, {")"} \cup stops, k + Len(opener))
  IN  IF /\ s[i] = "["
         /\ k >= i + 2
         /\ OccursAt(s, opener, k)
         /\ p <= Len(s)
         /\ s[p] = ")"
      THEN p ELSE 0
\* r"\[([^\]]+)\]\(javascript:.*?\)"
JavascriptLinkEnd(s, i) ==
  LinkEnd(s, i, <<"]", "(", "j", "a", "v", "a", "s", "c", "r", "i", "p", "t", ":">>, {"\n"})
\* r"\[([^\]]+)\]\(#[^)]*\)"
AnchorLinkEnd(s, i) == LinkEnd(s, i, <<"]", "(", "#">>, {})
\* r"\1": the text of the link that starts at i
LinkText(s, i) == SubSeq(s, i + 1, NextIn(s, {"]"}, i + 1) - 1)

\* re.sub(r"^\s{8,}", "    ", line)
FixIndentation(line) ==
  TheOne({Sub(s, [i \in DOMAIN s |-> IndentEnd(s, i)],
              [i \in DOMAIN s |-> <<" ", " ", " ", " ">>]) : s \in {line}})
\* re.sub(r"\[([^\]]+)\]\(javascript:.*?\)", r"\1", line)
CleanJavascriptLinks(line) ==
  TheOne({Sub(s, [i \in DOMAIN s |-> JavascriptLinkEnd(s, i)],
              [i \in DOMAIN s |-> LinkText(s, i)]) : s \in {line}})
\* re.sub(r"\[([^\]]+)\]\(#[^)]*\)", r"\1", line)
CleanAnchorLinks(line) ==
  TheOne({Sub(s, [i \in DOMAIN s |-> AnchorLinkEnd(s, i)],
              [i \in DOMAIN s |-> LinkText(s, i)]) : s \in {line}})

\* what is appended to cleaned_lines for a line that is kept
clean_line(line) == CleanAnchorLinks(CleanJavascriptLinks(FixIndentation(line)))

\* the loop over lines
RECURSIVE cleaned_lines(_)
cleaned_lines(lines) ==
  IF lines = <<>> THEN <<>>
  ELSE TheOne({(IF line = <<>> THEN << <<>> >>
                ELSE IF MatchesUi(line) THEN <<>>
                ELSE IF Len(line) < 3 /\ line \notin ShortLinesKept THEN <<>>
                ELSE <<clean_line(lines[1])>>) : line \in {Strip(lines[1], WhiteSpace)}})
       \o cleaned_lines(Tail(lines))

\* r"\n\s*\n\s*\n+": a run of white space that starts with "\n" and holds
\* three "\n" or more, up to the last of them
BlankLinesEnd(s, i) ==
  LET z == RunEnd(s, i, WhiteSpace) - 1
  IN  IF s[i] = "\n" /\ Newlines(s, i, z) >= 3 THEN LastNewline(s, i, z) ELSE 0

\* r"^#{5,}" with re.MULTILINE
DeepHeaderEnd(s, i) ==
  IF (i = 1 \/ s[i - 1] = "\n") /\ RunEnd(s, i, {"#"}) - i >= 5
  THEN RunEnd(s, i, {"#"}) - 1 ELSE 0

Fence == <<"backtick", "backtick", "backtick">>
\* r"```\s*\n\s*```"
EmptyCodeEnd(s, i) ==
  LET j == RunEnd(s, i + 3, WhiteSpace)
  IN  IF OccursAt(s, Fence, i) /\ Newlines(s, i + 3, j - 1) >= 1 /\ OccursAt(s, Fence, j)
      THEN j + 2 ELSE 0

\* r"\|\s*\|\s*\|\s*\n"
EmptyRowEnd(s, i) ==
  LET j == RunEnd(s, i + 1, WhiteSpace)
      k == RunEnd(s, j + 1, WhiteSpace)
      m == RunEnd(s, k + 1, WhiteSpace)
  IN  IF s[i] = "|" /\ OccursAt(s, <<"|">>, j) /\ OccursAt(s, <<"|">>, k)
      THEN LastNewline(s, k + 1, m - 1) ELSE 0

\* r"\n---+\s*" at i: the position after it, the white space included; 0
\* when it is not there
RuleEnd(s, i) ==
  LET j == RunEnd(s, i + 1, {"-"})
  IN  IF OccursAt(s, <<"\n">>, i) /\ j - (i + 1) >= 3 THEN RunEnd(s, j, WhiteSpace) ELSE 0
\* r"(\n---+\s*\n){2,}": the first rule ends with its "\n" right before the
\* "\n" the second starts with; the second ends with the last "\n" of the
\* white space after it, and no third rule is taken
RulesEnd(s, i) ==
  LET a == RuleEnd(s, i)
      b == RuleEnd(s, a - 1)
  IN  IF /\ a > 0
         /\ a - 2 >= RunEnd(s, i + 1, {"-"})
         /\ s[a - 2] = "\n" /\ s[a - 1] = "\n"
         /\ b > 0
      THEN LastNewline(s, RunEnd(s, a, {"-"}), b - 1) ELSE 0

\* r"\n(#{1,4}\s+[^\n]+)\n(?!\n)": the white space after the "#" is as long
\* as it can be with a character left on its line after it
HeaderEnd(s, i) ==
  LET j == RunEnd(s, i + 1, {"#"})
      m == RunEnd(s, j, WhiteSpace)
      ok == {p \in (j + 1)..m :
               /\ p <= Len(s) /\ s[p] # "\n"
               /\ NextIn(s, {"\n"}, p) <= Len(s)
               /\ ~OccursAt(s, <<"\n">>, NextIn(s, {"\n"}, p) + 1)}
  IN  IF s[i] = "\n" /\ j - (i + 1) \in 1..4 /\ ok # {}
      THEN NextIn(s, {"\n"}, CHOOSE p \in ok : \A q \in ok : q <= p) ELSE 0

\* r"\n(```[^`]*```)\n(?!\n)"
CodeBlockEnd(s, i) ==
  LET j == NextIn(s, {"backtick"}, i + 4)
  IN  IF /\ OccursAt(s, <<"\n">> \o Fence, i)
         /\ OccursAt(s, Fence, j)
         /\ OccursAt(s, <<"\n">>, j + 3)
         /\ ~OccursAt(s, <<"\n">>, j + 4)
      THEN j + 3 ELSE 0

\* re.sub(r"\n\s*\n\s*\n+", "\n\n", cleaned)
RemoveExcessiveWhitespace(cleaned) ==
  TheOne({Sub(s, [i \in DOMAIN s |-> BlankLinesEnd(s, i)],
              [i \in DOMAIN s |-> <<"\n", "\n">>]) : s \in {cleaned}})
\* re.sub(r"^#{5,}", "####", cleaned, flags=re.MULTILINE)
NormalizeHeaders(cleaned) ==
  TheOne({Sub(s, [i \in DOMAIN s |-> DeepHeaderEnd(s, i)],
              [i \in DOMAIN s |-> <<"#", "#", "#", "#">>]) : s \in {cleaned}})
\* re.sub(r"```\s*\n\s*```", "", cleaned)
RemoveEmptyCodeBlocks(cleaned) ==
  TheOne({Sub(s, [i \in DOMAIN s |-> EmptyCodeEnd(s, i)], [i \in DOMAIN s |-> <<>>]) :
            s \in {cleaned}})
\* re.sub(r"\|\s*\|\s*\|\s*\n", "", cleaned)
RemoveEmptyRows(cleaned) ==
  TheOne({Sub(s, [i \in DOMAIN s |-> EmptyRowEnd(s, i)], [i \in DOMAIN s |-> <<>>]) :
            s \in {cleaned}})
\* re.sub(r"(\n---+\s*\n){2,}", "\n---\n", cleaned)
RemoveExcessiveRules(cleaned) ==
  TheOne({Sub(s, [i \in DOMAIN s |-> RulesEnd(s, i)],
              [i \in DOMAIN s |-> <<"\n", "-", "-", "-", "\n">>]) : s \in {cleaned}})
\* re.sub(r"\n(#{1,4}\s+[^\n]+)\n(?!\n)", r"\n\1\n\n", cleaned)
SpaceHeaders(cleaned) ==
  TheOne({Sub(s, [i \in DOMAIN s |-> HeaderEnd(s, i)],
              [i \in DOMAIN s |-> SubSeq(s, i, HeaderEnd(s, i)) \o <<"\n">>]) :
            s \in {cleaned}})
\* re.sub(r"\n(```[^`]*```)\n(?!\n)", r"\n\1\n\n", cleaned)
SpaceCodeBlocks(cleaned) ==
  TheOne({Sub(s, [i \in DOMAIN s |-> CodeBlockEnd(s, i)],
              [i \in DOMAIN s |-> SubSeq(s, i, CodeBlockEnd(s, i)) \o <<"\n">>]) :
            s \in {cleaned}})

\* "\n".join(cleaned_lines) for the lines of markdown
JoinedLines(markdown) ==
  TheOne({Join(cleaned_lines(lines), <<"\n">>) : lines \in {Split(markdown, "\n")}})

\* clean_markdown_for_llm(markdown, url)
clean_markdown_for_llm(markdown, url) ==
  IF markdown = <<>> THEN <<>>
  ELSE Strip(SpaceCodeBlocks(SpaceHeaders(RemoveExcessiveRules(RemoveEmptyRows(
         RemoveEmptyCodeBlocks(NormalizeHeaders(RemoveExcessiveWhitespace(
           JoinedLines(markdown)))))))), WhiteSpace)

\* the pieces of markdown the text given is joined from: a header, a line of
\* text, an empty line, a rule, a fence, a code block, a javascript link, a
\* navigation word, an empty table row, a header of level six and an
\* indented line with an anchor link
PieceInputs ==
  {<<"#", " ", "T", "\n">>,
   <<"t", "e", "x", "t", "\n">>,
   <<"\n">>,
   <<"\n", "-", "-", "-", "\n">>,
   <<"backtick", "backtick", "backtick", "\n">>,
   <<"\n", "backtick", "backtick", "backtick", "x", "backtick", "backtick", "backtick", "\n">>,
   <<"[", "a", "]", "(", "j", "a", "v", "a", "s", "c", "r", "i", "p", "t", ":", "x", ")", "\n">>,
   <<"H", "o", "m", "e", "\n">>,
   <<"|", " ", "|", " ", "|", "\n">>,
   <<"#", "#", "#", "#", "#", "#", "\n">>,
   <<" ", " ", " ", " ", " ", " ", " ", " ", " ", "[", "t", "]", "(", "#", "t", ")", " ", "x", "\n">>}

\* the texts given: up to MaxPieces pieces, joined
RECURSIVE Concat(_)
Concat(parts) == IF parts = <<>> THEN <<>> ELSE parts[1] \o Concat(Tail(parts))
CleanMarkdownInputs ==
  {Concat(parts) : parts \in UNION {[1..n -> PieceInputs] : n \in 0..MaxPieces}}

CleanInit ==
  /\ NotCrawling
  /\ pc = "call"
  /\ base_url = EmptyUrl
  /\ domain = <<>>
  /\ url_patterns = [include |-> {}, exclude |-> {}]
  /\ args \in [markdown : CleanMarkdownInputs, url : {<<>>}]
  /\ ret = NoRet

\* cleaned = crawler.clean_markdown_for_llm(markdown, url)
CallClean ==
  /\ pc = "call"
  /\ ret' = clean_markdown_for_llm(args.markdown, args.url)
  /\ pc' = "cleaned"
  /\ UNCHANGED <<crawlVars, base_url, domain, url_patterns, args>>

\* crawler.clean_markdown_for_llm(cleaned, url)
CallCleanAgain ==
  /\ pc = "cleaned"
  /\ args' = [args EXCEPT !.markdown = ret]
  /\ ret' = clean_markdown_for_llm(ret, args.url)
  /\ pc' = "cleaned again"
  /\ UNCHANGED <<crawlVars, base_url, domain, url_patterns>>

CleanNext == CallClean \/ CallCleanAgain

CleanSpec == CleanInit /\ [][CleanNext]_vars

(***************************************************************************)
(* split_text_semantically.                                                *)
(***************************************************************************)
MaxParagraphs == 3   \* paragraphs joined into the text given to the splitter

\* s.split(sep) for a text sep
RECURSIVE SplitText(_, _)
SplitText(s, sep) ==
  IF Find(s, sep) = 0 THEN <<s>>
  ELSE <<SubSeq(s, 1, Find(s, sep) - 1)>>
       \o SplitText(SubSeq(s, Find(s, sep) + Len(sep), Len(s)), sep)

\* the first position of s that is white space right after ".", "!" or
\* "?"; 0 when there is none
SentenceBreak(s) ==
  LET hits == {i \in 2..Len(s) : s[i] \in WhiteSpace /\ s[i - 1] \in {".", "!", "?"}}
  IN  IF hits = {} THEN 0 ELSE CHOOSE i \in hits : \A j \in hits : i <= j

\* re.split(r"(?<=[.!?])\s+", paragraph)
RECURSIVE Sentences(_)
Sentences(paragraph) ==
  IF SentenceBreak(paragraph) = 0 THEN <<paragraph>>
  ELSE <<SubSeq(paragraph, 1, SentenceBreak(paragraph) - 1)>>
       \o Sentences(SubSeq(paragraph,
                           RunEnd(paragraph, SentenceBreak(paragraph), WhiteSpace),
                           Len(paragraph)))

\* the default of min_tokens
DefaultMinTokens == 1000

\* chunks.append(current_chunk.strip()) if current_chunk
Saved(st) ==
  IF st.current_chunk # <<>>
  THEN [st EXCEPT !.chunks = Append(@, Strip(st.current_chunk, WhiteSpace))]
  ELSE st

\* one pass of the loop over sentences
SentenceStep(st, sentence, max_tokens) ==
  LET test_chunk == IF st.current_chunk # <<>>
                    THEN st.current_chunk \o <<" ">> \o sentence ELSE sentence
  IN  IF estimate_tokens(test_chunk) <= max_tokens
      THEN [st EXCEPT !.current_chunk = test_chunk]
      ELSE [Saved(st) EXCEPT !.current_chunk = sentence]

RECURSIVE SentenceLoop(_, _, _)
SentenceLoop(st, sentences, max_tokens) ==
  IF sentences = <<>> THEN st
  ELSE SentenceLoop(TheOne({SentenceStep(s, Head(sentences), max_tokens) : s \in {st}}),
                    Tail(sentences), max_tokens)

\* the current chunk has enough content and is saved before the paragraph
SavesEarlyNever(st, min_tokens) == FALSE
SavesEarly(st, min_tokens) ==
  st.current_chunk # <<>> /\ estimate_tokens(st.current_chunk) >= min_tokens

\* one pass of the loop over paragraphs
ParagraphStep(st, paragraph, max_tokens, min_tokens) ==
  LET test_chunk == IF st.current_chunk # <<>>
                    THEN st.current_chunk \o <<"\n", "\n">> \o paragraph ELSE paragraph
  IN  IF estimate_tokens(test_chunk) <= max_tokens
      THEN [st EXCEPT !.current_chunk = test_chunk]
      ELSE IF SavesEarly(st, min_tokens)
      THEN [Saved(st) EXCEPT !.current_chunk = paragraph]
      ELSE IF estimate_tokens(paragraph) > max_tokens
      THEN IF Contains(paragraph, Fence)
           THEN [Saved(st) EXCEPT !.chunks = Append(@, paragraph), !.current_chunk = <<>>]
           ELSE SentenceLoop(st, Sentences(paragraph), max_tokens)
      ELSE [Saved(st) EXCEPT !.current_chunk = paragraph]

RECURSIVE ParagraphLoop(_, _, _, _)
ParagraphLoop(st, paragraphs, max_tokens, min_tokens) ==
  IF paragraphs = <<>> THEN st
  ELSE ParagraphLoop(TheOne({ParagraphStep(s, Head(paragraphs), max_tokens, min_tokens) :
                               s \in {st}}),
                     Tail(paragraphs), max_tokens, min_tokens)

\* split_text_semantically(text, max_tokens, min_tokens)
split_text_semantically(text, max_tokens, min_tokens) ==
  SelectSeq(Saved(ParagraphLoop([chunks |-> <<>>, current_chunk |-> <<>>],
                                SplitText(text, <<"\n", "\n">>), max_tokens,
                                min_tokens)).chunks,
            LAMBDA chunk : Strip(chunk, WhiteSpace) # <<>>)

\* the paragraphs the text given is joined from: three sentences, one
\* sentence, the two halves of a code block with a blank line in it, and a
\* code block with two sentences in it
ParagraphInputs ==
  {<<"A", "a", " ", "b", "b", ".", " ", "C", "c", " ", "d", "d", ".", " ", "E", "e", " ", "f", "f", ".">>,
   <<"I", "n", "t", "r", "o", ".">>,
   <<"backtick", "backtick", "backtick", "\n", "c", "o", "d", "e">>,
   <<"m", "o", "r", "e", "\n", "backtick", "backtick", "backtick">>,
   <<"backtick", "backtick", "backtick", "a", ".", " ", "b", "backtick", "backtick", "backtick">>}

\* the texts given: up to MaxParagraphs paragraphs, with a blank line between
SplitTextInputs ==
  {Join(ps, <<"\n", "\n">>) : ps \in UNION {[1..n -> ParagraphInputs] : n \in 0..MaxParagraphs}}

SplitInit ==
  /\ NotCrawling
  /\ pc = "call"
  /\ base_url = EmptyUrl
  /\ domain = <<>>
  /\ url_patterns = [include |-> {}, exclude |-> {}]
  /\ args \in [text : SplitTextInputs, max_tokens : {1, 2, 4, 7},
               min_tokens : {1, DefaultMinTokens}]
  /\ ret = NoRet

\* crawler.split_text_semantically(text, max_tokens, min_tokens)
CallSplitText ==
  /\ pc = "call"
  /\ ret' = split_text_semantically(args.text, args.max_tokens, args.min_tokens)
  /\ pc' = "returned"
  /\ UNCHANGED <<crawlVars, base_url, domain, url_patterns, args>>

SplitNext == CallSplitText

SplitSpec == SplitInit /\ [][SplitNext]_vars

(***************************************************************************)
(* save_llm_optimized_results and the writers it calls.  The disk is the   *)
(* set of the paths that exist, each a text; what a file holds is left     *)
(* out.  The call is given the disk before it and the answer typed at the  *)
(* overwrite prompt, and gives back the tuple returned and the disk after  *)
(* it.  None, and an empty site_name, is the empty text.                   *)
(***************************************************************************)
MaxSavedPages == 2   \* pages in the list given to save_llm_optimized_results

NoPath == <<>>

\* the default of chunk_size
DefaultChunkSize == 4000

\* datetime.now().strftime("%Y%m%d_%H%M%S"), the clock read once
Timestamp == <<"2", "0", "2", "3", "0", "1", "0", "1", "_", "0", "0", "0", "0", "0", "0">>

\* os.path.join(a, b), os.path.basename(p)
PathJoin(a, b) == a \o <<"/">> \o b
Basename(p) == SubSeq(p, LastIn(p, {"/"}) + 1, Len(p))

\* the characters \w matches
WordChars == Letters \cup Digits \cup {"_"}

\* f"{i:03d}"
Pad3(i) == IF i < 10 THEN <<"0", "0">> \o Str(i) ELSE IF i < 100 THEN <<"0">> \o Str(i) ELSE Str(i)

\* the first parts of a domain that are not taken as the site name
DocsParts ==
  {<<"d", "o", "c", "s">>, <<"d", "o", "c", "u", "m", "e", "n", "t", "a", "t", "i", "o", "n">>, <<"h", "e", "l", "p">>, <<"a", "p", "i">>}

\* the part of the domain taken as the site name, cleaned
NameOfDomain(dom) ==
  LET parts == Split(dom, ".")
      name == IF Contains(dom, <<".">>) /\ Len(parts) >= 2
              THEN IF parts[1] \in DocsParts THEN parts[2] ELSE parts[1]
              ELSE dom
  IN  SelectSeq(name, LAMBDA c : c \in WordChars \cup {"-"})

\* the site name create_site_directory takes from url
SiteName(url) ==
  TheOne({NameOfDomain(dom) :
            dom \in {ReplaceAll(ReplaceAll(Lower(Netloc(url)), <<"w", "w", "w", ".">>, <<>>),
                                <<"d", "o", "c", "s", ".">>, <<>>)}})

\* shutil.rmtree(dir)
RemoveTree(disk, dir) == {p \in disk : p # dir /\ ~StartsWith(p, dir \o <<"/">>)}

\* the directory create_site_directory makes for the site name nm, and the
\* disk after it
SiteDirectory(base_output_dir, nm, disk, response) ==
  LET site_dir == PathJoin(base_output_dir, nm)
  IN  IF site_dir \notin disk THEN [dir |-> site_dir, disk |-> disk \cup {site_dir}]
      ELSE IF response = "y"
      THEN [dir |-> site_dir, disk |-> RemoveTree(disk, site_dir) \cup {site_dir}]
      ELSE [dir |-> PathJoin(base_output_dir, nm \o <<"_">> \o Timestamp),
            disk |-> disk \cup {PathJoin(base_output_dir, nm \o <<"_">> \o Timestamp)}]

\* create_site_directory(base_output_dir, url)
create_site_directory(base_output_dir, url, disk, response) ==
  TheOne({SiteDirectory(base_output_dir, nm, disk, response) : nm \in {SiteName(url)}})

\* re.sub(r"[^\w\-_.]", "_", s)
SafeName(s) == [i \in 1..Len(s) |-> IF s[i] \in WordChars \cup {"-", "."} THEN s[i] ELSE "_"]

\* main_section of a page
MainSection(r) ==
  IF Split(r.path, "/")[1] # <<>> THEN Split(r.path, "/")[1] ELSE <<"h", "o", "m", "e">>

\* create_sectioned_files: the directory and one file for each section
SectionPaths(rs, sections_dir) ==
  {sections_dir}
  \cup {PathJoin(sections_dir, SafeName(MainSection(rs[i])) \o <<".", "m", "d">>) :
          i \in 1..Len(rs)}

\* the file name save_raw_html_files makes of the path of a page's URL
HtmlNameOfPath(url_path) ==
  LET safe == SafeName(Replace(Strip(url_path, {"/"}), "/", "_"))
  IN  IF url_path = <<"/">> \/ url_path = <<>>
      THEN <<"i", "n", "d", "e", "x", ".", "h", "t", "m", "l">>
      ELSE IF EndsWith(safe, <<".", "h", "t", "m", "l">>) THEN safe
      ELSE safe \o <<".", "h", "t", "m", "l">>

\* the file name save_raw_html_files makes of a page
HtmlName(r) == TheOne({HtmlNameOfPath(url_path) : url_path \in {UrlPath(r.url)}})

\* save_raw_html_files: the directory and one numbered file for each page
HtmlPaths(rs, html_dir) ==
  {html_dir} \cup {PathJoin(html_dir, Pad3(i) \o <<"_">> \o HtmlName(rs[i])) : i \in 1..Len(rs)}

\* re.sub(r"\s+", "_", s)
RECURSIVE Underscored(_)
Underscored(s) ==
  IF FirstIn(s, WhiteSpace) > Len(s) THEN s
  ELSE SubSeq(s, 1, FirstIn(s, WhiteSpace) - 1) \o <<"_">>
       \o Underscored(SubSeq(s, RunEnd(s, FirstIn(s, WhiteSpace), WhiteSpace), Len(s)))

\* the file name save_individual_markdown_files makes of a title
TitleName(title) ==
  LET kept == SelectSeq(title, LAMBDA c : c \in WordChars \cup {"-"} \cup WhiteSpace)
      safe_title == Underscored(Strip(kept, WhiteSpace))
  IN  SubSeq(safe_title, 1, Min(50, Len(safe_title))) \o <<".", "m", "d">>

\* the file name save_individual_markdown_files makes of the path of a
\* page's URL
MarkdownNameOfPath(url_path) ==
  IF url_path = <<"/">> \/ url_path = <<>>
  THEN <<"i", "n", "d", "e", "x", ".", "m", "d">>
  ELSE SafeName(Replace(Strip(url_path, {"/"}), "/", "_")) \o <<".", "m", "d">>

\* the file name save_individual_markdown_files makes of a page
MarkdownName(r) ==
  IF r.title # <<>> /\ r.title # Documentation
  THEN TitleName(r.title)
  ELSE TheOne({MarkdownNameOfPath(url_path) : url_path \in {UrlPath(r.url)}})

\* save_individual_markdown_files: the directory and one numbered file for
\* each page
MarkdownPaths(rs, markdown_dir) ==
  {markdown_dir}
  \cup {PathJoin(markdown_dir, Pad3(i) \o <<"_">> \o MarkdownName(rs[i])) : i \in 1..Len(rs)}

\* save_chunks for the chunks and the manifest create_chunks returns: the
\* directory, one file for each chunk and the manifest
ChunkPaths(rs, chunk_size, source, name, chunks_dir) ==
  {chunks_dir}
  \cup {PathJoin(chunks_dir, c.filename) : c \in SeqRange(create_chunks(rs, chunk_size, source).chunks)}
  \cup {PathJoin(chunks_dir, name \o <<"_", "c", "h", "u", "n", "k", "_", "m", "a", "n", "i", "f", "e", "s", "t", "_">> \o Timestamp
                              \o <<".", "j", "s", "o", "n">>)}

\* the name of a file of the run: f"{site_name}_{kind}_{timestamp}{ext}"
RunFile(output_dir, name, kind, ext) ==
  PathJoin(output_dir, name \o <<"_">> \o kind \o <<"_">> \o Timestamp \o ext)

\* every option at its default
DefaultOptions ==
  [site_name |-> <<>>, enable_chunking |-> FALSE, chunk_size |-> DefaultChunkSize,
   save_html |-> FALSE, save_individual_markdown |-> TRUE, enable_sections |-> FALSE,
   enable_combined |-> FALSE, enable_index |-> FALSE]

\* what save_llm_optimized_results writes into output_dir under the site
\* name given, and returns
SaveInto(rs, opt, source, output_dir, name, disk) ==
  LET combined_file ==
        IF opt.enable_combined
        THEN RunFile(output_dir, name, <<"d", "o", "c", "s">>, <<".", "m", "d">>)
        ELSE NoPath
      sections_dir ==
        IF opt.enable_sections
        THEN PathJoin(output_dir, <<"s", "e", "c", "t", "i", "o", "n", "s">>) ELSE NoPath
      metadata_file ==
        RunFile(output_dir, name, <<"m", "e", "t", "a", "d", "a", "t", "a">>,
                <<".", "j", "s", "o", "n">>)
      index_file ==
        IF opt.enable_index
        THEN RunFile(output_dir, name, <<"i", "n", "d", "e", "x">>, <<".", "m", "d">>)
        ELSE NoPath
      html_dir == IF opt.save_html THEN PathJoin(output_dir, <<"h", "t", "m", "l">>) ELSE NoPath
      markdown_dir ==
        IF opt.save_individual_markdown
        THEN PathJoin(output_dir, <<"m", "a", "r", "k", "d", "o", "w", "n">>) ELSE NoPath
      chunks_dir ==
        IF opt.enable_chunking
        THEN PathJoin(output_dir, <<"c", "h", "u", "n", "k", "s">>) ELSE NoPath
  IN  [returned |-> <<combined_file, metadata_file, index_file, sections_dir, chunks_dir,
                      html_dir, markdown_dir>>,
       disk |-> disk
                \cup (IF opt.enable_combined THEN {combined_file} ELSE {})
                \cup (IF opt.enable_sections THEN SectionPaths(rs, sections_dir) ELSE {})
                \cup {metadata_file}
                \cup (IF opt.enable_index THEN {index_file} ELSE {})
                \cup (IF opt.save_html THEN HtmlPaths(rs, html_dir) ELSE {})
                \cup (IF opt.save_individual_markdown
                      THEN MarkdownPaths(rs, markdown_dir) ELSE {})
                \cup (IF opt.enable_chunking
                      THEN ChunkPaths(rs, opt.chunk_size, source, name, chunks_dir)
                      ELSE {})]

\* the site name of the run: the one given, or the name of the directory
RunName(opt, output_dir) ==
  IF opt.site_name = <<>> THEN Basename(output_dir) ELSE opt.site_name

\* save_llm_optimized_results(rs, base_output_dir, **opt) with self.base_url
\* = source, on the disk given
save_llm_optimized_results(rs, base_output_dir, opt, source, disk, response) ==
  TheOne({SaveInto(rs, opt, source, made.dir, RunName(opt, made.dir), made.disk) :
            made \in {create_site_directory(base_output_dir, source, disk, response)}})

\* the pages given: two of PageInputs, and one whose title is the default
\* title and whose URL has characters a file name does not keep
SavedPageInputs ==
  {p \in PageInputs : p.path \in {<<"b", "/", "c">>, <<"h", "o", "m", "e">>}}
  \cup {[url |-> <<"h", "t", "t", "p", "s", ":", "/", "/", "a", ".", "i", "o", "/", "x", " ", "y", "/", "z", ".", "h", "t", "m", "l", "?", "q">>, title |-> Documentation,
         path |-> <<"x", " ", "y", "/", "z", ".", "h", "t", "m", "l">>, markdown |-> <<"d", "o", "c">>, word_count |-> 1]}

\* the lists of pages given: up to MaxSavedPages pages, no page twice
SavedResultInputs ==
  {rs \in UNION {[1..n -> SavedPageInputs] : n \in 0..MaxSavedPages} :
     \A i, j \in 1..Len(rs) : i # j => rs[i] # rs[j]}

\* base_output_dir, and self.base_url
OutputDir == <<"o", "u", "t">>
SaveBaseUrlInputs ==
  {ChunkBaseUrl,
   <<"h", "t", "t", "p", "s", ":", "/", "/", "w", "w", "w", ".", "D", "o", "c", "s", ".", "b", "-", "c", ".", "i", "o", "/", "d", "o", "c", "s">>,
   <<"h", "t", "t", "p", "s", ":", "/", "/", "a", "p", "i", ".", "d", ".", "i", "o">>}

\* the options given; chunks are made under the name the chunks are modelled
\* with, site_name
OptionInputs ==
  {opt \in [site_name : {<<>>, site_name}, enable_chunking : BOOLEAN,
            chunk_size : {59, DefaultChunkSize}, save_html : BOOLEAN,
            save_individual_markdown : BOOLEAN, enable_sections : BOOLEAN,
            enable_combined : BOOLEAN, enable_index : BOOLEAN] :
     /\ opt.enable_chunking => opt.site_name = site_name
     /\ ~opt.enable_chunking => opt.chunk_size = DefaultChunkSize}

\* the disk before the call: the base directory alone, or with the site
\* directory of an earlier run in it
OldFile(url) == PathJoin(PathJoin(OutputDir, SiteName(url)), <<"o", "l", "d", ".", "m", "d">>)
DiskInputs(url) ==
  {{OutputDir}, {OutputDir, PathJoin(OutputDir, SiteName(url)), OldFile(url)}}

SaveInit ==
  /\ NotCrawling
  /\ pc = "call"
  /\ base_url \in SaveBaseUrlInputs
  /\ domain = <<>>
  /\ url_patterns = [include |-> {}, exclude |-> {}]
  /\ args \in {a \in [results : SavedResultInputs, base_output_dir : {OutputDir},
                      opt : OptionInputs, disk : DiskInputs(base_url),
                      response : {"y", "n"}] :
                 a.disk = {OutputDir} => a.response = "n"}
  /\ ret = NoRet

\* crawler.save_llm_optimized_results(results, base_output_dir, **opt)
CallSaveResults ==
  /\ pc = "call"
  /\ ret' = save_llm_optimized_results(args.results, args.base_output_dir, args.opt,
                                       base_url, args.disk, args.response)
  /\ pc' = "returned"
  /\ UNCHANGED <<crawlVars, base_url, domain, url_patterns, args>>

SaveNext == CallSaveResults

SaveSpec == SaveInit /\ [][SaveNext]_vars

(***************************************************************************)
(* Properties of the crawl loop.                                           *)
(***************************************************************************)
Fresh == run = 1
Running == pc \in {"loop", "fetching", "sleeping"}
\* crawler.arun was called for current_url in this pass
Fetched == Len(arun_calls) > 0 /\ arun_calls[Len(arun_calls)] = current_url
\* the pass for current_url is at its politeness sleep
PassDone == pc = "sleeping"
\* crawl_page returned early: is_valid_url rejected current_url
Rejected == PassDone /\ ~Fetched
ResultUrls == {results[i].url : i \in 1..Len(results)}
\* the step removes a URL from the frontier within a run
Pops == run' = run /\ \E u \in urls_to_crawl : u \notin urls_to_crawl'
\* the step calls crawler.arun
CallsArun == run' = run /\ arun_calls' # arun_calls
\* the step is a pass through the already-crawled branch
SkipStep == run' = run /\ pc = "loop" /\ pc' = "loop" /\ Pops

\* C1: on a fresh crawler the number of PageResults never exceeds max_pages,
\* and while a pass of the loop body is under way (the fetch is pending) the
\* budget was not yet reached.
C1_BudgetRespected ==
  /\ Fresh => Len(results) <= max_pages
  /\ pc = "fetching" => Len(results) < max_pages

C1_Witness ==
  /\ Fresh /\ pc = "done"
  /\ max_pages = MaxPages /\ Len(results) = max_pages
  /\ urls_to_crawl # {}

\* C2: crawled_urls never shrinks within or across passes; a URL enters it
\* only at the loop head, when it is popped from the frontier, one URL per
\* step, and before crawler.arun has been called for it in this run; and
\* crawler.arun is called on a URL only once in a run, for the URL that was
\* just added to crawled_urls.
C2_VisitedOnceBeforeFetch ==
  [][/\ crawled_urls \subseteq crawled_urls'
     /\ crawled_urls' # crawled_urls =>
          /\ pc = "loop"
          /\ current_url' \in urls_to_crawl
          /\ current_url' \notin crawled_urls
          /\ crawled_urls' = crawled_urls \cup {current_url'}
          /\ current_url' \notin SeqRange(arun_calls)
     /\ CallsArun =>
          /\ arun_calls' = Append(arun_calls, current_url')
          /\ current_url' \notin SeqRange(arun_calls)
          /\ current_url' \notin crawled_urls
          /\ current_url' \in crawled_urls']_vars

\* a failed URL is found again as a link of a later page and is not enqueued
C2_Witness ==
  /\ PassDone /\ page_data # None
  /\ \E u \in SeqRange(failed_urls) :
       u \in found_links /\ u \in SeqRange(arun_calls) /\ u \notin urls_to_crawl

\* C3: when every fetch returns and every sleep ends, a started deep_crawl
\* reaches its return, and when the loop has exited the frontier is empty or
\* len(results) has reached max_pages.
C3_Terminates ==
  /\ Running ~> (pc = "done")
  /\ [](pc = "done" => (urls_to_crawl = {} \/ Len(results) >= max_pages))

\* the run ended on an empty frontier below the budget, after a failure
C3_Witness ==
  /\ pc = "done" /\ Fresh
  /\ urls_to_crawl = {} /\ Len(results) < max_pages
  /\ Len(failed_urls) > 0 /\ Len(results) > 0

\* C4 as stated: a dequeued URL that is_valid_url rejects is not fetched and
\* is recorded in failed_urls before the loop continues.
C4_Original ==
  Rejected => current_url \in SeqRange(failed_urls)

\* C4 as amended: a dequeued URL that is_valid_url rejects is not fetched
\* (crawler.arun is only ever called on URLs the scope filter admits), gives
\* no page and no links, and is NOT recorded in failed_urls; the loop goes on
\* to the politeness sleep.
C4_RejectedNotFetchedNotRecorded ==
  /\ \A u \in SeqRange(arun_calls) : ValidUnder(u, domain, url_patterns)
  /\ Rejected =>
       /\ ~ValidUnder(current_url, domain, url_patterns)
       /\ current_url \notin SeqRange(arun_calls)
       /\ current_url \notin SeqRange(failed_urls)
       /\ page_data = None /\ found_links = {}
       /\ in_flight = 0

C4_Witness == Rejected /\ Fresh /\ current_url \in crawled_urls

\* C5 as stated: after a fetch that succeeded with text whose cleaned length
\* is at most min_content_length, no PageResult is appended, no links are
\* discovered and the URL is in failed_urls.
C5_Original ==
  (PassDone /\ Fetched /\ ~result.raises /\ HasText(result)
     /\ result.cleaned <= MinContentLength) =>
    /\ page_data = None
    /\ current_url \notin ResultUrls
    /\ found_links = {}
    /\ current_url \in SeqRange(failed_urls)

\* C6: when crawler.arun raises, or returns success = false, or returns no
\* text, the step that handles it leaves results and the frontier as they
\* were, returns no page and no links, appends the URL to failed_urls and
\* goes on to the politeness sleep, from which the loop head is reached.
C6_FetchFailureRecorded ==
  [][(pc = "fetching" /\ (result'.raises \/ ~result'.success \/ result'.markdown = 0)) =>
       /\ page_data' = None /\ found_links' = {}
       /\ results' = results
       /\ urls_to_crawl' = urls_to_crawl
       /\ failed_urls' = Append(failed_urls, current_url)
       /\ pc' = "sleeping"]_vars

\* a fetch is started after an earlier fetch of the same run failed
C6_Witness ==
  /\ pc = "fetching" /\ Len(arun_calls) >= 2
  /\ \E i \in 1..Len(failed_urls), j \in 1..(Len(arun_calls) - 1) :
       failed_urls[i] = arun_calls[j]

\* C7 as stated: at the start of every deep_crawl call crawled_urls, results
\* and failed_urls are empty and the frontier holds only the seed.
C7_Original ==
  (pc = "loop" /\ current_url = NoUrl) =>
    /\ crawled_urls = {}
    /\ results = <<>>
    /\ failed_urls = <<>>
    /\ Cardinality(urls_to_crawl) = 1

\* C8: the step that handles a returned fetch adds at most LinkCap URLs to
\* the frontier; each was discovered on that page (a relative link of it that
\* extract_links_from_content returned), is not in crawled_urls and passes
\* the scope filter; nothing is added when the page gave no PageResult or
\* len(results) has reached max_pages; and no other step of a run adds to
\* the frontier.
C8_EnqueueBounded ==
  [][run' = run =>
       LET added == urls_to_crawl' \ urls_to_crawl
       IN  /\ Cardinality(added) <= LinkCap
           /\ added # {} =>
                /\ pc = "fetching" /\ page_data' # None
                /\ added \subseteq found_links'
                /\ added \subseteq Sites[site].rel[current_url]
                /\ added \cap crawled_urls' = {}
                /\ \A l \in added : ValidUnder(l, domain, url_patterns)
           /\ Len(results') >= max_pages => added = {}]_vars

\* a page with more than LinkCap valid new links: LinkCap of them are queued
C8_Witness ==
  /\ PassDone /\ page_data # None
  /\ Cardinality(found_links \ crawled_urls) > LinkCap
  /\ Cardinality(urls_to_crawl) = LinkCap

\* C9: every pass that dequeues a URL and does not skip it sleeps once
\* (sleeps counts the passes: one behind while the fetch is pending), a pass
\* through the already-crawled branch does not sleep, and when crawler.arun
\* is called again in a run a sleep has happened since its last call.
C9_SleepEveryPass ==
  /\ [](Running \/ pc = "done" =>
          sleeps = IF pc = "fetching" THEN processed - 1 ELSE processed)
  /\ [][/\ SkipStep => (sleeps' = sleeps /\ processed' = processed)
        /\ (CallsArun /\ Len(arun_calls) > 0) => sleeps > sleeps_at_fetch]_vars

\* a second fetch of a run, after the sleep that followed a rejected or
\* failed or successful first pass
C9_Witness ==
  /\ pc = "fetching" /\ Len(arun_calls) = 3
  /\ sleeps = 2 /\ sleeps_at_fetch = sleeps /\ Len(failed_urls) > 0

\* C10: at most one crawler.arun call is pending, exactly while deep_crawl
\* waits for it; a URL is removed from the frontier only at the loop head,
\* with no fetch pending, that is after the pass before it has set
\* page_data and found_links, extended results and the frontier, and slept.
C10_OneFetchInFlight ==
  /\ [](in_flight <= 1 /\ (in_flight = 1 <=> pc = "fetching"))
  /\ [][Pops => (pc = "loop" /\ in_flight = 0 /\ sleeps = processed)]_vars

\* a fetch is pending while other URLs wait in the frontier
C10_Witness == pc = "fetching" /\ in_flight = 1 /\ Cardinality(urls_to_crawl) >= 2

\* the first deep_crawl of a crawler, on the pair site, from the seed
\* https://a.io/docs/ with max_pages = 2
PairRun == site = 1 /\ Fresh /\ base_url = RStripSlash(UrlTable[1]) /\ max_pages = 2
\* every fetch of the run gave a PageResult
AllBuilt == SeqRange(arun_calls) \subseteq ResultUrls

\* C11: with a budget of 2 on a fresh crawler, over a site whose seed and one
\* other in-scope page link to each other, the run terminates, and when each
\* fetch succeeded with enough content it returns exactly two PageResults,
\* the seed's then the linked page's, each URL was fetched and visited once,
\* and the frontier is empty or the budget is reached.
C11_TwoPageCrawl ==
  /\ (PairRun /\ Running) ~> (PairRun /\ pc = "done")
  /\ []((PairRun /\ pc = "done" /\ AllBuilt) =>
          /\ Len(results) = 2
          /\ results[1].url = 1 /\ results[2].url = 6
          /\ arun_calls = <<1, 6>>
          /\ crawled_urls = {1, 6}
          /\ (urls_to_crawl = {} \/ Len(results) >= max_pages))

\* the run has returned the two pages; the link back to the seed was found
\* on the second page and not queued
C11_Witness ==
  /\ PairRun /\ pc = "done" /\ AllBuilt
  /\ Len(results) = 2 /\ found_links = {1} /\ urls_to_crawl = {}

(***************************************************************************)
(* Properties of is_valid_url (FilterSpec).                                *)
(***************************************************************************)
Returned == pc = "returned"

\* C12 as stated: with a domain configured, is_valid_url returns false for
\* every URL whose scheme and host are not exactly the configured domain,
\* a host that only starts with the configured host included, whatever the
\* include and exclude patterns.
C12_Original ==
  (Returned /\ domain # <<>> /\ SchemeAndHost(args.url) # domain) => ret = FALSE

\* the lowercase path of the URL ends with one of file_extensions
PathEndsWithFileExtension(url) ==
  \E ext \in file_extensions : EndsWith(Lower(UrlPath(url)), ext)

\* what is_valid_url decides when the extension is left out of account
ValidApartFromExtension(url) ==
  /\ FormatOk(url)
  /\ ~SearchInvalid(unquote(url))
  /\ \/ domain = <<>>
     \/ DomainOk(url, domain) /\ IncludeOk(url, url_patterns) /\ ~ExcludeHit(url, url_patterns)

\* C13 as stated: is_valid_url returns false for every URL whose lowercase
\* path ends with one of the file extensions, with or without a query or a
\* fragment after it, and a URL whose path has no such extension is not
\* rejected for its extension, even when its query or fragment ends with one.
C13_Original ==
  Returned =>
    /\ PathEndsWithFileExtension(args.url) => ret = FALSE
    /\ ~PathEndsWithFileExtension(args.url) => ret = ValidApartFromExtension(args.url)

\* C14: is_valid_url returns false for every URL that, after percent-
\* decoding, contains ${...}, {{...}} or a literal *, whatever the domain and
\* the patterns.
C14_TemplateRejected ==
  (Returned /\ \/ SearchDollarBrace(unquote(args.url))
               \/ SearchDoubleBrace(unquote(args.url))
               \/ SearchStar(unquote(args.url))) =>
    ret = FALSE

\* a URL that is well-formed, of the configured domain, included, not
\* excluded, with no file extension, whose only fault is an encoded *
C14_Witness ==
  /\ Returned /\ ret = FALSE
  /\ Contains(args.url, <<"%", "2", "a">>) /\ ~SearchStar(args.url)
  /\ FormatOk(args.url) /\ ~EndsWithFileExtension(args.url)
  /\ domain # <<>> /\ DomainOk(args.url, domain)
  /\ IncludeOk(args.url, url_patterns) /\ ~ExcludeHit(args.url, url_patterns)

\* C15: for a URL that passes the format, template, extension and domain
\* checks (a domain is configured and the URL starts with it), is_valid_url
\* returns true exactly when the include list is empty or some include
\* pattern matches, letter case ignored, and no exclude pattern matches: an
\* exclude match rejects the URL even when an include pattern matches.
C15_PatternsDecide ==
  (/\ Returned
   /\ FormatOk(args.url) /\ ~SearchInvalid(unquote(args.url))
   /\ ~EndsWithFileExtension(args.url)
   /\ domain # <<>> /\ StartsWith(args.url, domain)) =>
    (ret = TRUE <=>
       /\ \/ url_patterns.include = {}
          \/ \E w \in url_patterns.include : SearchIgnoreCase(w, args.url)
       /\ ~\E w \in url_patterns.exclude : SearchIgnoreCase(w, args.url))

\* a URL that an include pattern and an exclude pattern both match
C15_Witness ==
  /\ Returned /\ ret = FALSE
  /\ FormatOk(args.url) /\ ~SearchInvalid(unquote(args.url))
  /\ ~EndsWithFileExtension(args.url)
  /\ domain # <<>> /\ StartsWith(args.url, domain)
  /\ \E w \in url_patterns.include : SearchIgnoreCase(w, args.url)
  /\ \E w \in url_patterns.exclude : SearchIgnoreCase(w, args.url)

(***************************************************************************)
(* Properties of extract_title_and_description (TitleSpec).                *)
(***************************************************************************)
\* the text of the first line of lines that P holds of; <<>> when none
FirstText(lines, P(_)) ==
  LET found == SelectSeq(lines, P) IN IF found = <<>> THEN <<>> ELSE HeadingText(found[1])

\* C17 as stated: the title is the first level-1 heading if the content has
\* one anywhere, even after a level-2 heading; otherwise the first level-2
\* heading; otherwise the last non-empty path segment of the URL with "-"
\* and "_" replaced by spaces and title-cased; otherwise "Documentation".
C17_Original ==
  Returned =>
    LET lines == StrippedLines(args.markdown)
    IN  ret = IF \E i \in 1..Len(lines) : IsH1(lines[i]) THEN FirstText(lines, IsH1)
              ELSE IF \E i \in 1..Len(lines) : IsH2(lines[i]) THEN FirstText(lines, IsH2)
              ELSE TitleFromUrl(args.url)

(***************************************************************************)
(* Properties of extract_links_from_content (LinkSpec).                    *)
(***************************************************************************)
\* a target with no scheme and no host
RelativeTarget(t) == t # <<>> /\ Scheme(t) = <<>> /\ Netloc(t) = <<>>

\* C18 as stated: every URL extract_links_from_content returns passes
\* is_valid_url; every relative target of a markdown link or of an href
\* whose resolution against the base URL passes is_valid_url is returned;
\* and no URL of another host than the configured domain's is returned.
C18_Original ==
  Returned =>
    /\ \A l \in ret : ValidText(l, domain, url_patterns)
    /\ \A t \in MarkdownTargets(args.markdown, 1) \cup HrefTargets(args.html, 1) :
         (RelativeTarget(t) /\ ValidText(urljoin(args.base_url, t), domain, url_patterns))
           => urljoin(args.base_url, t) \in ret
    /\ \A l \in ret : SchemeAndHost(l) = domain

(***************************************************************************)
(* Properties of create_chunks (ChunkSpec).                                *)
(***************************************************************************)
\* the chunks whose page list holds the page r
ChunksListing(r) ==
  {k \in 1..Len(ret.chunks) :
     \E j \in 1..Len(ret.chunks[k].pages) : ret.chunks[k].pages[j].url = r.url}
\* how many times p occurs in s
Occurrences(s, p) == Cardinality({i \in 1..Len(s) : OccursAt(s, p, i)})

\* C19 as stated: for every list of pages and every chunk_size each page
\* given is in the page list of exactly one chunk, once, and its whole
\* page_content is in the content of that chunk, once, and in no other; a
\* list of one page gives one chunk with that page, whatever its size.
C19_Original ==
  Returned =>
    /\ \A i \in 1..Len(args.results) :
         LET r == args.results[i]
         IN  /\ Cardinality(ChunksListing(r)) = 1
             /\ \A k \in 1..Len(ret.chunks) :
                  /\ Cardinality({j \in 1..Len(ret.chunks[k].pages) :
                                    ret.chunks[k].pages[j].url = r.url})
                       = IF k \in ChunksListing(r) THEN 1 ELSE 0
                  /\ Occurrences(ret.chunks[k].content, PageContent(r))
                       = IF k \in ChunksListing(r) THEN 1 ELSE 0
    /\ Len(args.results) = 1 => Len(ret.chunks) = 1

\* the page of the list given that has the URL u
PageOfUrl(u) == CHOOSE r \in SeqRange(args.results) : r.url = u
\* the header and the page blocks of a chunk, as they were joined
RECURSIVE Blocks(_)
Blocks(pages) ==
  IF pages = <<>> THEN <<>> ELSE PageContent(PageOfUrl(pages[1].url)) \o Blocks(Tail(pages))
RawContent(c) == ChunkHeader(c.chunk_number, base_url) \o Blocks(c.pages)

\* C20: the estimated_tokens recorded for a chunk, in the chunk and in the
\* manifest, is the length of its header and page blocks divided by 4,
\* rounded down; for a chunk of two pages or more it is at most chunk_size,
\* so only a chunk of one page may exceed chunk_size; and a chunk is followed
\* by another exactly when its content with the next page added would have
\* exceeded chunk_size.
C20_ChunkSizeRespected ==
  Returned =>
    \A k \in 1..Len(ret.chunks) :
      LET c == ret.chunks[k]
      IN  /\ c.estimated_tokens = Len(RawContent(c)) \div 4
          /\ ret.manifest.chunks[k].estimated_tokens = c.estimated_tokens
          /\ Len(c.pages) >= 2 => c.estimated_tokens <= args.chunk_size
          /\ c.estimated_tokens > args.chunk_size => Len(c.pages) = 1
          /\ k < Len(ret.chunks) =>
               (Len(RawContent(c))
                  + Len(PageContent(PageOfUrl(ret.chunks[k + 1].pages[1].url)))) \div 4
                 > args.chunk_size

\* a chunk of one page over chunk_size, followed by a chunk of two pages that
\* fills chunk_size exactly
C20_Witness ==
  /\ Returned /\ Len(ret.chunks) = 2
  /\ Len(ret.chunks[1].pages) = 1 /\ ret.chunks[1].estimated_tokens > args.chunk_size
  /\ Len(ret.chunks[2].pages) = 2 /\ ret.chunks[2].estimated_tokens = args.chunk_size

(***************************************************************************)
(* Properties of clean_markdown_for_llm (CleanSpec).                       *)
(***************************************************************************)
\* C16 as stated: the cleaner is idempotent; cleaning a text that the
\* cleaner returned gives that text again.
C16_Original == pc = "cleaned again" => ret = args.markdown

(***************************************************************************)
(* Properties of create_chunks, continued (ChunkSpec).                     *)
(***************************************************************************)
\* "**Chunk**: k of n" and a newline
ChunkOf(k, n) ==
  <<"*", "*", "C", "h", "u", "n", "k", "*", "*", ":", " ">> \o Str(k)
  \o <<" ", "o", "f", " ">> \o Str(n) \o <<"\n">>

\* C21: the chunks returned are numbered 1..N in order; the manifest has
\* total_chunks = N and one record per chunk, in order, with the chunk's
\* chunk_number, page_count and word_count; no content holds the
\* placeholder, and the header of chunk k reads "k of N".
C21_NumberedAndCounted ==
  Returned =>
    LET N == Len(ret.chunks)
    IN  /\ ret.manifest.total_chunks = N
        /\ Len(ret.manifest.chunks) = N
        /\ \A k \in 1..N :
             /\ ret.chunks[k].chunk_number = k
             /\ ret.manifest.chunks[k].chunk_number = k
             /\ ret.manifest.chunks[k].page_count = Len(ret.chunks[k].pages)
             /\ ret.manifest.chunks[k].word_count = ret.chunks[k].word_count
             /\ ret.chunks[k].word_count = SumWords(ret.chunks[k].pages)
             /\ ~Contains(ret.chunks[k].content, Placeholder)
             /\ Contains(ret.chunks[k].content, ChunkOf(k, N))

\* three chunks, one of a page whose text held the placeholder
C21_Witness ==
  /\ Returned /\ Len(ret.chunks) = 3
  /\ \E i \in 1..Len(args.results) : Contains(args.results[i].markdown, Placeholder)

(***************************************************************************)
(* Properties of split_text_semantically (SplitSpec).                      *)
(***************************************************************************)
\* C22 as stated: a text without a code fence is given; every piece
\* returned that holds more than one sentence or more than one paragraph
\* has an estimate of at most max_tokens.
C22_Original ==
  (Returned /\ ~Contains(args.text, Fence)) =>
    \A k \in 1..Len(ret) :
      (Len(Sentences(ret[k])) > 1 \/ Contains(ret[k], <<"\n", "\n">>))
        => estimate_tokens(ret[k]) <= args.max_tokens

\* C23 as stated: a text with one code block, two fences, is given; one of
\* the pieces returned holds both fences.
C23_Original ==
  (Returned /\ Occurrences(args.text, Fence) = 2) =>
    \E k \in 1..Len(ret) : Occurrences(ret[k], Fence) = 2

(***************************************************************************)
(* Properties of save_llm_optimized_results (SaveSpec).                    *)
(***************************************************************************)
\* C24 as stated: with every option at its default the call returns four
\* paths, of the combined document, the metadata file, the index file and
\* the sections directory, and each of them is on the disk afterwards.
C24_Original ==
  (Returned /\ args.opt = DefaultOptions) =>
    /\ Len(ret.returned) = 4
    /\ \A k \in 1..4 : ret.returned[k] \in ret.disk

(***************************************************************************)
(* Further properties of the crawl loop (Spec, FairSpec).                  *)
(***************************************************************************)
\* C25: base_url, domain and the include and exclude patterns are assigned
\* by the step that starts deep_crawl, where setup_for_website derives them
\* from the start URL, and every other step of the run (dequeue,
\* is_valid_url, crawl_page, link discovery, enqueue, sleep, exit) leaves
\* all of them unchanged.
C25_ConfigSetOnce ==
  [][IF run' # run
     THEN /\ pc \in {"idle", "done"} /\ pc' = "loop"
          /\ \E start \in StartUrls :
               /\ base_url' = RStripSlash(UrlTable[start])
               /\ domain' = DomainOf(UrlTable[start])
               /\ url_patterns' = auto_detect_patterns(url_patterns, base_url')
     ELSE UNCHANGED <<base_url, domain, url_patterns>>]_vars

\* a run that has set a domain and include patterns, has fetched, found
\* links and queued them, and is in its second pass or later
C25_Witness ==
  /\ pc = "sleeping" /\ processed >= 2 /\ Len(arun_calls) >= 2
  /\ domain # "" /\ url_patterns.include # {} /\ urls_to_crawl # {}

\* C26: in the first deep_crawl run of a crawler object urls_to_crawl and
\* crawled_urls are disjoint whenever the loop is at its head, and no pass
\* of that run takes the already-crawled branch (pop, no fetch, no sleep);
\* a pass takes it only in a later deep_crawl call on the same object.
C26_FreshNeverSkips ==
  /\ []((Fresh /\ AtLoopHead) => urls_to_crawl \cap crawled_urls = {})
  /\ [][SkipStep => ~Fresh]_vars

\* a first run at its loop head with URLs waiting and URLs visited
C26_Witness ==
  /\ Fresh /\ AtLoopHead
  /\ Cardinality(urls_to_crawl) >= 2 /\ Cardinality(crawled_urls) >= 2

\* a second run whose first pass took the already-crawled branch
C26_CarriedOverSkip ==
  /\ run = 2 /\ AtLoopHead /\ current_url \in crawled_urls
  /\ processed = 0 /\ sleeps = 0 /\ arun_calls = <<>>

\* C27: in every state of the first deep_crawl run of a crawler object the
\* URLs of the pages in results are pairwise distinct, failed_urls holds no
\* URL twice, no URL is in both, every URL of either is in crawled_urls, and
\* len(results) + len(failed_urls) is at most the size of crawled_urls.
C27_FreshBookkeeping ==
  Fresh =>
    /\ \A i, j \in 1..Len(results) : i # j => results[i].url # results[j].url
    /\ \A i, j \in 1..Len(failed_urls) : i # j => failed_urls[i] # failed_urls[j]
    /\ ResultUrls \cap SeqRange(failed_urls) = {}
    /\ ResultUrls \cup SeqRange(failed_urls) \subseteq crawled_urls
    /\ Len(results) + Len(failed_urls) <= Cardinality(crawled_urls)

\* a first run with two pages, a failed URL, and a visited URL that is in
\* neither list
C27_Witness ==
  /\ Fresh /\ Len(results) >= 2 /\ Len(failed_urls) >= 1
  /\ crawled_urls \ (ResultUrls \cup SeqRange(failed_urls)) # {}

\* the start URL of the run
Seed == CHOOSE u \in StartUrls : RStripSlash(UrlTable[u]) = base_url

\* is_valid_url rejects u under the domain and the patterns that
\* setup_for_website builds from u alone
FailsOwnFilter(u) ==
  ~ValidUnder(u, DomainOf(UrlTable[u]),
              auto_detect_patterns([include |-> {}, exclude |-> {}],
                                   RStripSlash(UrlTable[u])))

\* C28 as stated: crawler.arun is called only with URLs is_valid_url admits,
\* and a run whose start URL fails the filter auto-detection builds from it
\* has called crawler.arun for no URL and returns an empty list.
C28_Original ==
  /\ \A u \in SeqRange(arun_calls) : is_valid_url(u)
  /\ (pc = "done" /\ FailsOwnFilter(Seed)) => (arun_calls = <<>> /\ results = <<>>)

\* every page in results gave at most LinkCap links
FewLinks == \A p \in ResultUrls : Cardinality(extract_links_from_content(p)) <= LinkCap

\* the first run has ended below its budget
EndedBelowBudget == Fresh /\ pc = "done" /\ Len(results) < max_pages

\* C29: in the first run of a crawler object, with every fetch returning
\* and every sleep ending: a step that handles a successful page with at
\* most LinkCap valid unvisited links, below the budget, leaves every link
\* discovered on the page visited or in the frontier; the run ends, with
\* the frontier empty or the budget reached; and when it has ended with
\* fewer than max_pages results the frontier is empty and every link
\* discovered on a page of results is in crawled_urls.
C29_DiscoveredAllVisited ==
  /\ [][(Fresh /\ run' = run /\ pc = "fetching" /\ page_data' # None
          /\ Cardinality(ValidNewLinks(found_links')) <= LinkCap
          /\ Len(results') < max_pages)
         => found_links' \subseteq crawled_urls \cup urls_to_crawl']_vars
  /\ (Fresh /\ Running)
       ~> (Fresh /\ pc = "done" /\ (urls_to_crawl = {} \/ Len(results) >= max_pages))
  /\ [](EndedBelowBudget => urls_to_crawl = {})
  /\ []((EndedBelowBudget /\ FewLinks) =>
          \A p \in ResultUrls : extract_links_from_content(p) \subseteq crawled_urls)

\* a first run that ended below its budget with two pages, whose links were
\* all queued and visited
C29_Witness ==
  /\ EndedBelowBudget /\ FewLinks /\ Len(results) = 2
  /\ Cardinality(crawled_urls) >= 4
  /\ \E p \in ResultUrls : Cardinality(extract_links_from_content(p)) >= 2

(***************************************************************************)
(* Further properties of extract_links_from_content (LinkSpec).            *)
(***************************************************************************)
\* C30 as stated: no target that starts with "http" or "//" is resolved,
\* and every URL returned is the resolution of a relative target of the
\* page: a URL the page wrote as an absolute link, with a scheme or a host,
\* is returned for no such target.
C30_Original ==
  Returned =>
    /\ \A t \in ResolvedTargets(args.html, args.markdown) :
         ~StartsWith(t, <<"h", "t", "t", "p">>) /\ ~StartsWith(t, <<"/", "/">>)
    /\ \A l \in ret :
         \E t \in MarkdownTargets(args.markdown, 1) \cup HrefTargets(args.html, 1) :
           RelativeTarget(t) /\ urljoin(args.base_url, t) = l

====
